---------------------------- MODULE Spec2Model ----------------------------
(***************************************************************************)
(* Model of the gear-trading engine: the gear function (src/src/lib.rs),   *)
(* the position accounting AgentPL and the GearHedger agent                *)
(* (src/src/hff/agents.rs).                                                *)
(*                                                                         *)
(* f64 values are modelled as exact rationals <<n, d>> in lowest terms     *)
(* with d > 0, extended with the IEEE values the code can produce:         *)
(* <<0, 0>> is NaN, <<1, 0>> is +inf and <<-1, 0>> is -inf.  Rounding of   *)
(* the f64 mantissa is not modelled.  i64 values are integers.             *)
(***************************************************************************)
EXTENDS Integers, Sequences, FiniteSets, TLC

VARIABLES
    agent,      \* the GearHedger under test (a record, see GearHedger_new)
    hist,       \* the last operation applied to agent: its name, inputs, result
    nFills,     \* number of fills applied to agent so far
    pl,         \* an AgentPL driven directly through buy / sell
    plHist,     \* the last operation applied to pl
    netVolume,  \* ghost: bought units minus sold units applied to pl
    retSum,     \* ghost: sum over closed units of the relative return
    diffSum,    \* ghost: sum over closed units of the price difference
    inv,        \* an AgentInventory: [agents: name -> agent, pl]
    inv2,       \* the second inventory of merge_inventories
    invHist,    \* the last operation applied to inv
    ctl         \* the control loop of trade_oanda: position, locals, log

vars == <<agent, hist, nFills, pl, plHist, netVolume, retSum, diffSum,
          inv, inv2, invHist, ctl>>
agentVars == <<agent, hist, nFills>>
plVars == <<pl, plHist, netVolume, retSum, diffSum>>
invVars == <<inv, inv2, invHist, ctl>>

----------------------------------------------------------------------------
(* Bounds of the exploration.                                              *)

\* fills applied to one GearHedger
MaxFills == 2
\* buy / sell calls applied to one AgentPL
MaxTrades == 3
\* largest number of units of one direct buy / sell call
MaxUnits == 2
\* fills applied to one AgentInventory
MaxInvFills == 1
\* iterations of the control loop (10000 in trade_oanda, scaled down)
MaxIter == 3
\* runs of the merge tools chained on one inventory
MaxMerges == 1
\* operations in a row on one agent, merge_flat among them
MaxDrive == 3

----------------------------------------------------------------------------
(* f64 arithmetic over extended rationals.                                 *)

Abs(i) == IF i < 0 THEN -i ELSE i

Sgn(i) == IF i < 0 THEN -1 ELSE IF i > 0 THEN 1 ELSE 0

Min(a, b) == IF a <= b THEN a ELSE b

RECURSIVE GCD(_, _)
GCD(a, b) == IF b = 0 THEN a ELSE GCD(b, a % b)

Norm(n, d) ==
    IF d = 0 THEN <<Sgn(n), 0>>
    ELSE LET g == GCD(Abs(n), Abs(d))
             s == IF d < 0 THEN -1 ELSE 1
         IN  <<(s * n) \div g, (s * d) \div g>>

F(i) == <<i, 1>>
Q(n, d) == Norm(n, d)
NaN == <<0, 0>>
IsNaN(a) == a = NaN

FNeg(a) == <<-a[1], a[2]>>

FAdd(a, b) ==
    IF IsNaN(a) \/ IsNaN(b) THEN NaN
    ELSE IF a[2] = 0 /\ b[2] = 0 THEN (IF a[1] = b[1] THEN a ELSE NaN)
    ELSE IF a[2] = 0 THEN a
    ELSE IF b[2] = 0 THEN b
    ELSE Norm(a[1] * b[2] + b[1] * a[2], a[2] * b[2])

FSub(a, b) == FAdd(a, FNeg(b))

FMul(a, b) == Norm(a[1] * b[1], a[2] * b[2])

\* x / 0 is +-inf for x # 0 and NaN for x = 0; x / inf is 0
FRecip(a) == IF a[1] < 0 THEN <<-a[2], -a[1]>> ELSE <<a[2], a[1]>>
FDiv(a, b) == FMul(a, FRecip(b))

\* every comparison with NaN is false
FLt(a, b) == ~IsNaN(a) /\ ~IsNaN(b) /\ a[1] * b[2] < b[1] * a[2]
FLe(a, b) == ~IsNaN(a) /\ ~IsNaN(b) /\ a[1] * b[2] <= b[1] * a[2]
FGt(a, b) == FLt(b, a)
FGe(a, b) == FLe(b, a)

FAbs(a) == <<Abs(a[1]), a[2]>>

\* f64::min, f64::max: when one argument is NaN the other is returned
FMin(a, b) == IF IsNaN(a) THEN b ELSE IF IsNaN(b) THEN a
              ELSE IF FLe(a, b) THEN a ELSE b
FMax(a, b) == IF IsNaN(a) THEN b ELSE IF IsNaN(b) THEN a
              ELSE IF FGe(a, b) THEN a ELSE b

\* f64::signum: 1.0 for a positive value and +0.0, -1.0 for a negative
\* value, NaN for NaN (-0.0 is not represented)
FSignum(a) == IF IsNaN(a) THEN NaN ELSE IF a[1] < 0 THEN F(-1) ELSE F(1)

AsI64_away(a) ==
    IF a[2] = 0 THEN 0
    ELSE Sgn(a[1]) * ((Abs(a[1]) + a[2] - 1) \div a[2])

\* `f as i64`: truncation toward zero, NaN becomes 0 (an infinite value
\* saturates in Rust; every value cast here is a finite gear times a finite
\* max_exposure)
AsI64(a) == IF a[2] = 0 THEN 0 ELSE Sgn(a[1]) * (Abs(a[1]) \div a[2])

\* f64::MAX, modelled by +inf: it is only ever a target, no finite profit
\* exceeds it, and sums with it stay at it
F64_MAX == <<1, 0>>

----------------------------------------------------------------------------
(* Gear function, src/src/lib.rs.                                          *)

GearRange_g(r, x) ==
    FAdd(r.g_start,
         FDiv(FMul(FSub(x, r.p_start), FSub(r.g_end, r.g_start)),
              FSub(r.p_end, r.p_start)))

Gear_positive(price0, price1) ==
    [p_0 |-> price0, g_0 |-> F(1),
     g_i |-> <<[p_start |-> price0, g_start |-> F(1),
                p_end |-> price1, g_end |-> F(0)]>>,
     p_n |-> price1, g_n |-> F(0)]

Gear_negative(price0, price1) ==
    [p_0 |-> price0, g_0 |-> F(0),
     g_i |-> <<[p_start |-> price0, g_start |-> F(0),
                p_end |-> price1, g_end |-> F(-1)]>>,
     p_n |-> price1, g_n |-> F(-1)]

Gear_constant(dir) ==
    [p_0 |-> F(1), g_0 |-> IF dir > 0 THEN F(1) ELSE F(-1),
     g_i |-> <<>>,
     p_n |-> F(1), g_n |-> IF dir > 0 THEN F(1) ELSE F(-1)]

Gear_symmetric_rising(price0, price1) ==
    [p_0 |-> price0, g_0 |-> F(-1),
     g_i |-> <<[p_start |-> price0, g_start |-> F(-1),
                p_end |-> price1, g_end |-> F(1)]>>,
     p_n |-> price1, g_n |-> F(1)]

Gear_symmetric(price0, price1) ==
    [p_0 |-> price0, g_0 |-> F(1),
     g_i |-> <<[p_start |-> price0, g_start |-> F(1),
                p_end |-> price1, g_end |-> F(-1)]>>,
     p_n |-> price1, g_n |-> F(-1)]

\* Gear::segment, Gear::jump and Gear::coastline are called by agents.rs but
\* are not part of lib.rs; they follow their description: a line between
\* two endpoints with clamp regions outside; a step that is g0 strictly
\* below price0 and g1 at or above; the line from
\* (price0 - imax * scale, imax * direction) to
\* (price0 + imax * scale, -imax * direction), clamped outside.
Gear_segment(p0, g0, pn, gn) ==
    [p_0 |-> p0, g_0 |-> g0,
     g_i |-> <<[p_start |-> p0, g_start |-> g0,
                p_end |-> pn, g_end |-> gn]>>,
     p_n |-> pn, g_n |-> gn]

Gear_jump(price0, g0, g1) ==
    [p_0 |-> price0, g_0 |-> g0, g_i |-> <<>>, p_n |-> price0, g_n |-> g1]

Gear_coastline(direction, price0, scale, imax) ==
    Gear_segment(FSub(price0, FMul(imax, scale)), FMul(imax, F(direction)),
                 FAdd(price0, FMul(imax, scale)), FNeg(FMul(imax, F(direction))))

\* the first range of g_i, from index i on, that covers x; 0.0 when none does
RECURSIVE Gear_scan(_, _, _)
Gear_scan(g_i, i, x) ==
    IF i > Len(g_i) THEN F(0)
    ELSE IF FGe(x, g_i[i].p_start) /\ FLt(x, g_i[i].p_end)
         THEN GearRange_g(g_i[i], x)
         ELSE Gear_scan(g_i, i + 1, x)

Gear_g_strict(gear, x) ==
    IF FLe(x, gear.p_0) THEN gear.g_0
    ELSE IF FGt(x, gear.p_n) THEN gear.g_n
    ELSE Gear_scan(gear.g_i, 1, x)

Gear_g(gear, x) ==
    IF FLt(x, gear.p_0) THEN gear.g_0
    ELSE IF FGe(x, gear.p_n) THEN gear.g_n
    ELSE Gear_scan(gear.g_i, 1, x)

----------------------------------------------------------------------------
(* Position accounting AgentPL, src/src/hff/agents.rs.                     *)

AgentPL_flat ==
    [exposure |-> 0, price_average |-> F(0),
     cum_profit |-> F(0), unrealized_pl |-> F(0)]

\* exposure as f64 * (x / price_average - 1.0)
uPL(p, x) == FMul(F(p.exposure), FSub(FDiv(x, p.price_average), F(1)))

pl_at_price(p, x) == FAdd(p.cum_profit, uPL(p, x))

increase_by(p, x, units) ==
    LET de == units
        e  == p.exposure + de
        a  == FDiv(FAdd(FMul(p.price_average, F(Abs(p.exposure))),
                        FMul(x, F(Abs(de)))),
                   F(Abs(e)))
        q  == [p EXCEPT !.exposure = e, !.price_average = a]
    IN  [q EXCEPT !.unrealized_pl = uPL(q, x)]

decrease_by_diff(p, x, units) ==
    LET de == units
        e  == p.exposure - de
        pi == FMul(F(de), FSub(x, p.price_average))
        q  == [p EXCEPT !.exposure = e, !.cum_profit = FAdd(p.cum_profit, pi)]
    IN  [q EXCEPT !.unrealized_pl = uPL(q, x)]

decrease_by_reprice(p, x, units) ==
    LET de == units
        e  == p.exposure - de
        pi == FMul(F(de), FSub(FDiv(x, p.price_average), F(1)))
        q  == [p EXCEPT !.exposure = e, !.price_average = x,
                        !.cum_profit = FAdd(p.cum_profit, pi)]
    IN  [q EXCEPT !.unrealized_pl = uPL(q, x)]

decrease_by(p, x, units) ==
    LET de == units
        e  == p.exposure - de
        pi == FMul(F(de), FSub(FDiv(x, p.price_average), F(1)))
        q  == [p EXCEPT !.exposure = e, !.cum_profit = FAdd(p.cum_profit, pi)]
    IN  [q EXCEPT !.unrealized_pl = uPL(q, x)]

buy_noflip(p, x, units) ==
    IF p.exposure >= 0 THEN increase_by(p, x, units)
    ELSE decrease_by(p, x, -units)

buy(p, x, units) ==
    IF p.exposure >= 0 THEN increase_by(p, x, units)
    ELSE IF p.exposure < 0 /\ units > -p.exposure
         THEN LET delta == units + p.exposure
              IN  increase_by(decrease_by(p, x, p.exposure), x, delta)
    ELSE IF p.exposure < 0 THEN decrease_by(p, x, -units)
    ELSE p

sell_short(p, x, units) ==
    IF p.exposure <= 0 THEN increase_by(p, x, -units)
    ELSE IF p.exposure > 0 /\ units > p.exposure
         THEN increase_by(decrease_by(p, x, p.exposure), x, -units)
    ELSE IF p.exposure > 0 THEN decrease_by(p, x, units)
    ELSE p

sell(p, x, units) ==
    IF p.exposure <= 0 THEN increase_by(p, x, -units)
    ELSE IF p.exposure > 0 /\ units > p.exposure
         THEN LET delta == units - p.exposure
              IN  increase_by(decrease_by(p, x, p.exposure), x, -delta)
    ELSE IF p.exposure > 0 THEN decrease_by(p, x, units)
    ELSE p

----------------------------------------------------------------------------
(* GearHedger, src/src/hff/agents.rs.  A Tick is [bid, ask] (its time is   *)
(* never read by the agent); an OrderFill is [price, units].               *)

GearHedger_new_staged(max_exposure, gear_f, scaleUp, scaleDown, target, anchor) ==
    [max_exposure |-> max_exposure, gear_f |-> gear_f,
     scaleUp |-> scaleUp, scaleDown |-> scaleDown,
     active |-> TRUE, target |-> target,
     lastTradePrice |-> anchor, nextBuyPrice |-> anchor,
     nextSellPrice |-> anchor,
     agentPL |-> AgentPL_flat,
     tentative_price |-> anchor, tentative_exposure |-> AsI64(max_exposure)]

GearHedger_new_wide(max_exposure, gear_f, scaleUp, scaleDown, target, anchor) ==
    [max_exposure |-> max_exposure, gear_f |-> gear_f,
     scaleUp |-> scaleUp, scaleDown |-> scaleDown,
     active |-> TRUE, target |-> target,
     lastTradePrice |-> anchor, nextBuyPrice |-> FSub(anchor, scaleDown),
     nextSellPrice |-> FAdd(anchor, scaleUp),
     agentPL |-> AgentPL_flat,
     tentative_price |-> anchor, tentative_exposure |-> 0]

GearHedger_new(max_exposure, gear_f, scaleUp, scaleDown, target, anchor) ==
    [max_exposure |-> max_exposure, gear_f |-> gear_f,
     scaleUp |-> scaleUp, scaleDown |-> scaleDown,
     active |-> TRUE, target |-> target,
     lastTradePrice |-> anchor, nextBuyPrice |-> anchor,
     nextSellPrice |-> anchor,
     agentPL |-> AgentPL_flat,
     tentative_price |-> anchor, tentative_exposure |-> 0]

buyer(price0, price1, scaleUp, scaleDown, max_exposure) ==
    GearHedger_new(max_exposure, Gear_positive(price0, price1),
                   scaleUp, scaleDown, F64_MAX, price1)

seller(price0, price1, scaleUp, scaleDown, max_exposure) ==
    GearHedger_new(max_exposure, Gear_negative(price0, price1),
                   scaleUp, scaleDown, F64_MAX, price0)

constant(exposure) ==
    GearHedger_new(FAbs(exposure), Gear_constant(AsI64(exposure)),
                   F(1), F(1), F64_MAX, F(1))

symmetric(price0, price1, scaleUp, scaleDown, max_exposure, target) ==
    GearHedger_new(max_exposure, Gear_symmetric(price0, price1),
                   scaleUp, scaleDown, target,
                   FDiv(FAdd(price0, price1), F(2)))

jump(price0, g_0, g_1, scaleUp, scaleDown, max_exposure) ==
    GearHedger_new(max_exposure, Gear_jump(price0, g_0, g_1),
                   scaleUp, scaleDown, F64_MAX, price0)

coastline(direction, price0, scale, size, imax) ==
    GearHedger_new(FMul(size, imax),
                   Gear_coastline(direction, price0, scale, imax),
                   scale, scale, FMul(scale, size), price0)

segment_unscaled(price0, exposure0, pricen, exposuren, scale, target) ==
    GearHedger_new(FMax(FAbs(exposure0), FAbs(exposuren)),
                   Gear_segment(price0, exposure0, pricen, exposuren),
                   scale, scale, target, price0)

segment(price0, exposure0, pricen, exposuren, scale, target) ==
    LET big == FGt(FAbs(exposure0), FAbs(exposuren))
        g_0 == IF big THEN FMul(F(1), FSignum(exposure0))
               ELSE FDiv(exposure0, FAbs(exposuren))
        g_1 == IF big THEN FDiv(exposuren, FAbs(exposure0))
               ELSE FMul(F(1), FSignum(exposuren))
    IN  GearHedger_new(FMax(FAbs(exposure0), FAbs(exposuren)),
                       Gear_segment(price0, g_0, pricen, g_1),
                       scale, scale, target, price0)

\* GAgent::build; a GAgent is a record tagged by kind, an Option<f64> field
\* is <<>> for None and <<v>> for Some(v)
unwrap_or(opt, default) == IF opt = <<>> THEN default ELSE opt[1]

GAgent_build(g) ==
    CASE g.kind = "OHLC" ->
           LET zerop == IF FLt(g.open, g.close) THEN g.close ELSE g.open
               exposure0 == FMin(g.exposure,
                                 FDiv(FMul(g.exposure, FSub(zerop, g.low)),
                                      FSub(g.high, zerop)))
               exposuren == FNeg(FMin(g.exposure,
                                      FDiv(FMul(g.exposure, FSub(g.high, zerop)),
                                           FSub(zerop, g.low))))
               actualTarget == unwrap_or(g.target, F64_MAX)
           IN  segment(g.low, exposure0, g.high, exposuren, g.scale, actualTarget)
      [] g.kind = "CL" ->
           LET shift == FMul(unwrap_or(g.i0, F(1)), g.scale)
               zerop == IF g.direction > 0 THEN FAdd(g.price, shift)
                        ELSE FSub(g.price, shift)
               high == FAdd(zerop, FMul(g.imax, g.scale))
               low == FSub(zerop, FMul(g.imax, g.scale))
               actualTarget == unwrap_or(g.target, FMul(g.size, g.scale))
               e == FMul(g.size, g.imax)
           IN  segment(low, e, high, FNeg(e), g.scale, actualTarget)
      [] g.kind = "Symmetric" ->
           symmetric(FSub(g.pmid, g.span), FAdd(g.pmid, g.span),
                     g.scale, g.scale, g.exposure, g.target)
      [] g.kind = "Buy" ->
           buyer(g.price0, g.price1, g.scale, g.scale, g.exposure)
      [] g.kind = "Sell" ->
           seller(g.price0, g.price1, g.scale, g.scale, g.exposure)
      [] g.kind = "JumpLong" ->
           jump(g.price0, F(1), F(0), g.scale, g.scale, g.exposure)
      [] g.kind = "Coastline" ->
           coastline(g.direction, g.price0, g.scale, g.size, g.imax)
      [] g.kind = "Segment" ->
           segment(g.price0, g.exposure0, g.pricen, g.exposuren,
                   g.scale, g.target)

exposure(a) == a.agentPL.exposure

close(a, tick) ==
    [a EXCEPT !.tentative_price =
                  IF a.agentPL.exposure > 0 THEN tick.bid ELSE tick.ask,
              !.tentative_exposure = 0]

deactivate(a) == [a EXCEPT !.active = FALSE]

to_be_closed(a) == FGt(a.agentPL.cum_profit, a.target)

\* returns [agent, ret]
target_action(a) ==
    [agent |-> deactivate([a EXCEPT !.tentative_exposure = 0]), ret |-> 0]

target_exposure_asksell(a, tick) ==
    IF FGe(tick.ask, a.nextSellPrice)
    THEN LET e == AsI64(FMul(Gear_g(a.gear_f, tick.bid), a.max_exposure))
         IN  [agent |-> [a EXCEPT !.tentative_price = tick.bid,
                                  !.tentative_exposure = e],
              ret |-> e]
    ELSE IF FLe(tick.ask, a.nextBuyPrice)
    THEN LET e == AsI64(FMul(Gear_g(a.gear_f, tick.ask), a.max_exposure))
         IN  [agent |-> [a EXCEPT !.tentative_price = tick.ask,
                                  !.tentative_exposure = e],
              ret |-> e]
    ELSE [agent |-> a, ret |-> a.agentPL.exposure]

target_exposure_bidgear(a, tick) ==
    IF FGe(tick.bid, a.nextSellPrice)
    THEN LET e == AsI64(FMul(Gear_g(a.gear_f, tick.bid), a.max_exposure))
         IN  [agent |-> [a EXCEPT !.tentative_price = tick.bid,
                                  !.tentative_exposure = e],
              ret |-> e]
    ELSE IF FLe(tick.ask, a.nextBuyPrice)
    THEN LET e == AsI64(FMul(Gear_g(a.gear_f, tick.bid), a.max_exposure))
         IN  [agent |-> [a EXCEPT !.tentative_price = tick.ask,
                                  !.tentative_exposure = e],
              ret |-> e]
    ELSE [agent |-> a, ret |-> a.agentPL.exposure]

target_exposure_askfirst(a, tick) ==
    IF FLe(tick.ask, a.nextBuyPrice)
    THEN LET e == AsI64(FMul(Gear_g(a.gear_f, tick.ask), a.max_exposure))
         IN  [agent |-> [a EXCEPT !.tentative_price = tick.ask,
                                  !.tentative_exposure = e],
              ret |-> e]
    ELSE IF FGe(tick.bid, a.nextSellPrice)
    THEN LET e == AsI64(FMul(Gear_g(a.gear_f, tick.bid), a.max_exposure))
         IN  [agent |-> [a EXCEPT !.tentative_price = tick.bid,
                                  !.tentative_exposure = e],
              ret |-> e]
    ELSE [agent |-> a, ret |-> a.agentPL.exposure]

\* returns [agent, ret]
target_exposure(a, tick) ==
    IF FGe(tick.bid, a.nextSellPrice)
    THEN LET e == AsI64(FMul(Gear_g(a.gear_f, tick.bid), a.max_exposure))
         IN  [agent |-> [a EXCEPT !.tentative_price = tick.bid,
                                  !.tentative_exposure = e],
              ret |-> e]
    ELSE IF FLe(tick.ask, a.nextBuyPrice)
    THEN LET e == AsI64(FMul(Gear_g(a.gear_f, tick.ask), a.max_exposure))
         IN  [agent |-> [a EXCEPT !.tentative_price = tick.ask,
                                  !.tentative_exposure = e],
              ret |-> e]
    ELSE [agent |-> a, ret |-> a.agentPL.exposure]

close_price(a, tick) == IF exposure(a) > 0 THEN tick.bid ELSE tick.ask

next_exposure_bandfirst(a, tick) ==
    IF FLt(tick.bid, a.nextSellPrice) /\ FGt(tick.ask, a.nextBuyPrice)
    THEN [agent |-> a, ret |-> a.agentPL.exposure]
    ELSE IF FGt(pl_at_price(a.agentPL, close_price(a, tick)), a.target)
    THEN target_action([a EXCEPT !.tentative_price = close_price(a, tick),
                                 !.tentative_exposure = 0])
    ELSE target_exposure(a, tick)

\* returns [agent, ret]
next_exposure(a, tick) ==
    IF FGt(pl_at_price(a.agentPL, close_price(a, tick)), a.target)
    THEN target_action([a EXCEPT !.tentative_price = close_price(a, tick),
                                 !.tentative_exposure = 0])
    ELSE target_exposure(a, tick)

update_on_fill_units(a, order_fill) ==
    LET traded == order_fill.units
        b == IF traded < 0
             THEN [a EXCEPT !.agentPL = sell(a.agentPL, order_fill.price, Abs(traded)),
                            !.lastTradePrice = order_fill.price,
                            !.nextSellPrice = FAdd(order_fill.price, a.scaleUp),
                            !.nextBuyPrice = FSub(order_fill.price, a.scaleDown)]
             ELSE IF traded > 0
             THEN [a EXCEPT !.agentPL = buy(a.agentPL, order_fill.price, Abs(traded)),
                            !.lastTradePrice = order_fill.price,
                            !.nextBuyPrice = FSub(order_fill.price, a.scaleDown),
                            !.nextSellPrice = FAdd(order_fill.price, a.scaleUp)]
             ELSE a
    IN  IF to_be_closed(b) THEN deactivate(b) ELSE b

update_on_fill_swapped(a, order_fill) ==
    LET traded == a.tentative_exposure - a.agentPL.exposure
        b == IF traded < 0
             THEN [a EXCEPT !.agentPL = sell(a.agentPL, order_fill.price, Abs(traded)),
                            !.lastTradePrice = order_fill.price,
                            !.nextSellPrice = FAdd(order_fill.price, a.scaleDown),
                            !.nextBuyPrice = FSub(order_fill.price, a.scaleUp)]
             ELSE IF traded > 0
             THEN [a EXCEPT !.agentPL = buy(a.agentPL, order_fill.price, Abs(traded)),
                            !.lastTradePrice = order_fill.price,
                            !.nextBuyPrice = FSub(order_fill.price, a.scaleUp),
                            !.nextSellPrice = FAdd(order_fill.price, a.scaleDown)]
             ELSE a
    IN  IF to_be_closed(b) THEN deactivate(b) ELSE b

update_on_fill_reactivate(a, order_fill) ==
    LET traded == a.tentative_exposure - a.agentPL.exposure
        b == IF traded < 0
             THEN [a EXCEPT !.agentPL = sell(a.agentPL, order_fill.price, Abs(traded)),
                            !.lastTradePrice = order_fill.price,
                            !.nextSellPrice = FAdd(order_fill.price, a.scaleUp),
                            !.nextBuyPrice = FSub(order_fill.price, a.scaleDown)]
             ELSE IF traded > 0
             THEN [a EXCEPT !.agentPL = buy(a.agentPL, order_fill.price, Abs(traded)),
                            !.lastTradePrice = order_fill.price,
                            !.nextBuyPrice = FSub(order_fill.price, a.scaleDown),
                            !.nextSellPrice = FAdd(order_fill.price, a.scaleUp)]
             ELSE a
    IN  [b EXCEPT !.active = ~to_be_closed(b)]

update_on_fill(a, order_fill) ==
    LET traded == a.tentative_exposure - a.agentPL.exposure
        b == IF traded < 0
             THEN [a EXCEPT !.agentPL = sell(a.agentPL, order_fill.price, Abs(traded)),
                            !.lastTradePrice = order_fill.price,
                            !.nextSellPrice = FAdd(order_fill.price, a.scaleUp),
                            !.nextBuyPrice = FSub(order_fill.price, a.scaleDown)]
             ELSE IF traded > 0
             THEN [a EXCEPT !.agentPL = buy(a.agentPL, order_fill.price, Abs(traded)),
                            !.lastTradePrice = order_fill.price,
                            !.nextBuyPrice = FSub(order_fill.price, a.scaleDown),
                            !.nextSellPrice = FAdd(order_fill.price, a.scaleUp)]
             ELSE a
    IN  IF to_be_closed(b) THEN deactivate(b) ELSE b

next_exposure_and_fill_set(a, order_fill) ==
    update_on_fill([a EXCEPT !.tentative_price = order_fill.price,
                             !.tentative_exposure = order_fill.units],
                   order_fill)

next_exposure_and_fill(a, order_fill) ==
    update_on_fill([a EXCEPT !.tentative_price = order_fill.price,
                             !.tentative_exposure =
                                 a.tentative_exposure + order_fill.units],
                   order_fill)

\* merge_flat, lines 247-270: the flat agent that covers both inputs
merge_flat_build(self, other) ==
    LET p_0 == FMin(self.gear_f.p_0, other.gear_f.p_0)
        p_n == FMax(self.gear_f.p_n, other.gear_f.p_n)
        low_gear == FAdd(FMul(self.gear_f.g_0, self.max_exposure),
                         FMul(other.gear_f.g_0, other.max_exposure))
        high_gear == FAdd(FMul(self.gear_f.g_n, self.max_exposure),
                          FMul(other.gear_f.g_n, other.max_exposure))
        scaleUp == FDiv(FAdd(self.scaleUp, other.scaleUp), F(2))
        scaleDown == FDiv(FAdd(self.scaleDown, other.scaleDown), F(2))
        scale == FDiv(FAdd(scaleUp, scaleDown), F(2))
        target == FSub(FSub(FAdd(self.target, other.target),
                            self.agentPL.cum_profit),
                       other.agentPL.cum_profit)
    IN  GAgent_build([kind |-> "Segment", price0 |-> p_0, exposure0 |-> low_gear,
                      pricen |-> p_n, exposuren |-> high_gear,
                      scale |-> scale, target |-> target])

\* the OrderFill that replays the position of an agent
PositionFill(a) ==
    [price |-> a.agentPL.price_average, units |-> a.agentPL.exposure]

merge_flat(self, other) ==
    LET a0 == merge_flat_build(self, other)
        a1 == next_exposure_and_fill(a0, PositionFill(self))
        a2 == next_exposure_and_fill(a1, PositionFill(other))
    IN  [a2 EXCEPT !.active = TRUE]

\* The calls of increase_by and decrease_by that an operation makes, in
\* order: each is [fn, units, e] with e the exposure the call leaves.
buy_calls(p, units) ==
    IF p.exposure >= 0
    THEN <<[fn |-> "increase_by", units |-> units, e |-> p.exposure + units]>>
    ELSE IF p.exposure < 0 /\ units > -p.exposure
    THEN LET delta == units + p.exposure
         IN  <<[fn |-> "decrease_by", units |-> p.exposure, e |-> 0],
               [fn |-> "increase_by", units |-> delta, e |-> delta]>>
    ELSE IF p.exposure < 0
    THEN <<[fn |-> "decrease_by", units |-> -units, e |-> p.exposure + units]>>
    ELSE <<>>

sell_calls(p, units) ==
    IF p.exposure <= 0
    THEN <<[fn |-> "increase_by", units |-> -units, e |-> p.exposure - units]>>
    ELSE IF p.exposure > 0 /\ units > p.exposure
    THEN LET delta == units - p.exposure
         IN  <<[fn |-> "decrease_by", units |-> p.exposure, e |-> 0],
               [fn |-> "increase_by", units |-> -delta, e |-> -delta]>>
    ELSE IF p.exposure > 0
    THEN <<[fn |-> "decrease_by", units |-> units, e |-> p.exposure - units]>>
    ELSE <<>>

update_on_fill_calls_always(a) ==
    LET traded == a.tentative_exposure - a.agentPL.exposure
    IN  IF traded < 0 THEN sell_calls(a.agentPL, Abs(traded))
        ELSE buy_calls(a.agentPL, Abs(traded))

update_on_fill_calls(a) ==
    LET traded == a.tentative_exposure - a.agentPL.exposure
    IN  IF traded < 0 THEN sell_calls(a.agentPL, Abs(traded))
        ELSE IF traded > 0 THEN buy_calls(a.agentPL, Abs(traded))
        ELSE <<>>

next_exposure_and_fill_calls(a, order_fill) ==
    update_on_fill_calls(
        [a EXCEPT !.tentative_exposure = a.tentative_exposure + order_fill.units])

merge_flat_calls(self, other) ==
    LET a0 == merge_flat_build(self, other)
        a1 == next_exposure_and_fill(a0, PositionFill(self))
    IN  next_exposure_and_fill_calls(a0, PositionFill(self))
            \o next_exposure_and_fill_calls(a1, PositionFill(other))

----------------------------------------------------------------------------
(* AgentInventory, src/src/hff/agents.rs.  An inventory is the record      *)
(* [agents, pl]; agents is a function from the keys of the HashMap to the  *)
(* members.  A HashMap is iterated in an unspecified order: the operations *)
(* that iterate take the order of the visit, a sequence of all the keys.   *)

is_active(a) == a.active

\* the orders in which the keys S can be visited
Orders(S) ==
    {o \in [1..Cardinality(S) -> S] : \A x \in S : \E k \in DOMAIN o : o[k] = x}

Keys(i) == DOMAIN i.agents

AgentInventory_new == [agents |-> <<>>, pl |-> F(0)]

AgentInventory_is_active(i) == TRUE

AgentInventory_to_be_closed(i) == FALSE

AgentInventory_target_action(i) == 0

RECURSIVE AgentInventory_fold_exposure(_, _, _, _)
AgentInventory_fold_exposure(agents, order, k, acc) ==
    IF k > Len(order) THEN acc
    ELSE AgentInventory_fold_exposure(agents, order, k + 1,
             IF is_active(agents[order[k]])
             THEN acc + exposure(agents[order[k]]) ELSE acc)

AgentInventory_exposure(i, order) ==
    AgentInventory_fold_exposure(i.agents, order, 1, 0)

\* the call the loop of an inventory method makes on one member
Member_call(op, a, arg) ==
    CASE op = "close" -> close(a, arg)
      [] op = "deactivate" -> deactivate(a)
      [] op = "update_on_fill" -> update_on_fill(a, arg)

RECURSIVE AgentInventory_each(_, _, _, _, _, _)
\* the members visited in order from index k on; each is filtered on
\* is_active when it is reached (all = TRUE: no filter) and op is called
\* on it
AgentInventory_each(agents, order, k, all, op, arg) ==
    IF k > Len(order) THEN agents
    ELSE LET key == order[k]
         IN  AgentInventory_each(
                 IF all \/ is_active(agents[key])
                 THEN [agents EXCEPT ![key] = Member_call(op, agents[key], arg)]
                 ELSE agents,
                 order, k + 1, all, op, arg)

AgentInventory_close(i, tick, order) ==
    [i EXCEPT !.agents =
         AgentInventory_each(i.agents, order, 1, TRUE, "close", tick)]

AgentInventory_deactivate(i, order) ==
    [i EXCEPT !.agents =
         AgentInventory_each(i.agents, order, 1, TRUE, "deactivate", 0)]

RECURSIVE AgentInventory_fold_next(_, _, _, _, _, _)
\* the loop of next_exposure: [agents, ret]
AgentInventory_fold_next(agents, order, k, tick, acc, all) ==
    IF k > Len(order) THEN [agents |-> agents, ret |-> acc]
    ELSE LET key == order[k]
             r == next_exposure(agents[key], tick)
         IN  IF all \/ is_active(agents[key])
             THEN AgentInventory_fold_next([agents EXCEPT ![key] = r.agent],
                                           order, k + 1, tick, acc + r.ret, all)
             ELSE AgentInventory_fold_next(agents, order, k + 1, tick, acc, all)

AgentInventory_next_exposure_all(i, tick, order) ==
    LET r == AgentInventory_fold_next(i.agents, order, 1, tick, 0, TRUE)
    IN  [inv |-> [i EXCEPT !.agents = r.agents], ret |-> r.ret]

AgentInventory_next_exposure(i, tick, order) ==
    LET r == AgentInventory_fold_next(i.agents, order, 1, tick, 0, FALSE)
    IN  [inv |-> [i EXCEPT !.agents = r.agents], ret |-> r.ret]

AgentInventory_update_on_fill_all(i, order_fill, order) ==
    [i EXCEPT !.agents =
         AgentInventory_each(i.agents, order, 1, TRUE, "update_on_fill", order_fill)]

AgentInventory_update_on_fill(i, order_fill, order) ==
    [i EXCEPT !.agents =
         AgentInventory_each(i.agents, order, 1, FALSE, "update_on_fill", order_fill)]

\* the two iterations may visit the keys in different orders
AgentInventory_next_exposure_and_fill(i, order_fill, order1, order2) ==
    AgentInventory_update_on_fill(
        AgentInventory_next_exposure(
            i, [bid |-> order_fill.price, ask |-> order_fill.price], order1).inv,
        order_fill, order2)

----------------------------------------------------------------------------
(* Inputs of the exploration: prices on an integer grid, ticks of any bid  *)
(* and ask of the grid (crossed ticks included: the code accepts any       *)
(* pair), fills at any grid price.                                         *)

Prices == {3, 4, 5}
FillUnits == {-2, 1}
PrimeUnits == {1}

\* the scenario of the buyer between 1.00 and 2.00, in units of 0.01
ScenarioPrices == {150, 151, 152}
ScenarioUnits == {490, 500}
ScenarioTick == [bid |-> F(150), ask |-> F(151)]

Ticks(P) ==
    {[bid |-> F(t[1]), ask |-> F(t[2])] : t \in P \X P}

Fills(P, U) == {[price |-> F(t[1]), units |-> t[2]] : t \in P \X U}

NoTick == [bid |-> F(0), ask |-> F(0)]
NoFill == [price |-> F(0), units |-> 0]

FreshAgents ==
    {symmetric(F(2), F(6), F(1), Q(1, 2), F(3), Q(1, 5))}

ScenarioBuyer == buyer(F(100), F(200), F(1), F(1), F(1000))

\* the profit-take condition of a tick on an agent
TakeDue(a, tick) ==
    FGt(pl_at_price(a.agentPL, close_price(a, tick)), a.target)

\* the tick reaches the sell trip-wire, the buy trip-wire
BidDue(a, tick) == FGe(tick.bid, a.nextSellPrice)
AskDue(a, tick) == FLe(tick.ask, a.nextBuyPrice)

\* what the last operation was, on what inputs, and which of the cases the
\* properties speak of it met in the state it was applied to
Record(op, tick, fill, ret, traded) ==
    [op |-> op, tick |-> tick, fill |-> fill, ret |-> ret,
     take |-> op = "next_exposure" /\ TakeDue(agent, tick),
     bidDue |-> op \in {"next_exposure", "target_exposure"} /\ BidDue(agent, tick),
     askDue |-> op \in {"next_exposure", "target_exposure"} /\ AskDue(agent, tick),
     traded |-> traded,
     wasActive |-> agent.active,
     first |-> hist.op = "new",
     afterFirst |-> hist.first,
     prevTick |-> IF hist.first THEN hist.tick ELSE NoTick,
     afterTake |-> hist.op = "next_exposure" /\ hist.take,
     afterStage |-> hist.op = "next_exposure"
                        /\ (hist.take \/ hist.bidDue \/ hist.askDue)]

----------------------------------------------------------------------------
(* Operations on the GearHedger.                                           *)

NextExposure(P) ==
    \E tick \in Ticks(P) :
        LET r == next_exposure(agent, tick)
        IN  /\ agent' = r.agent
            /\ hist' = Record("next_exposure", tick, NoFill, r.ret, 0)
            /\ UNCHANGED <<nFills, plVars, invVars>>

TargetExposure(P) ==
    \E tick \in Ticks(P) :
        LET r == target_exposure(agent, tick)
        IN  /\ agent' = r.agent
            /\ hist' = Record("target_exposure", tick, NoFill, r.ret, 0)
            /\ UNCHANGED <<nFills, plVars, invVars>>

Close(P) ==
    \E tick \in Ticks(P) :
        /\ agent' = close(agent, tick)
        /\ hist' = Record("close", tick, NoFill, 0, 0)
        /\ UNCHANGED <<nFills, plVars, invVars>>

TargetAction ==
    LET r == target_action(agent)
    IN  /\ agent' = r.agent
        /\ hist' = Record("target_action", NoTick, NoFill, r.ret, 0)
        /\ UNCHANGED <<nFills, plVars, invVars>>

Deactivate ==
    /\ agent' = deactivate(agent)
    /\ hist' = Record("deactivate", NoTick, NoFill, 0, 0)
    /\ UNCHANGED <<nFills, plVars, invVars>>

UpdateOnFill(P, U, cap) ==
    /\ nFills < cap
    /\ \E fill \in Fills(P, U) :
        /\ agent' = update_on_fill(agent, fill)
        /\ hist' = Record("update_on_fill", NoTick, fill, 0,
                          agent.tentative_exposure - exposure(agent))
    /\ nFills' = nFills + 1
    /\ UNCHANGED <<plVars, invVars>>

NextExposureAndFill(P, U, cap) ==
    /\ nFills < cap
    /\ \E fill \in Fills(P, U) :
        /\ agent' = next_exposure_and_fill(agent, fill)
        /\ hist' = Record("next_exposure_and_fill", NoTick, fill, 0,
                          agent.tentative_exposure + fill.units - exposure(agent))
    /\ nFills' = nFills + 1
    /\ UNCHANGED <<plVars, invVars>>

InitHist ==
    [op |-> "new", tick |-> NoTick, fill |-> NoFill, ret |-> 0,
     take |-> FALSE, bidDue |-> FALSE, askDue |-> FALSE, traded |-> 0,
     wasActive |-> TRUE, first |-> FALSE, afterFirst |-> FALSE,
     prevTick |-> NoTick, afterTake |-> FALSE, afterStage |-> FALSE]

PLIdle ==
    /\ pl = AgentPL_flat
    /\ plHist = [op |-> "new", x |-> F(0), units |-> 0, n |-> 0, flip |-> FALSE]
    /\ netVolume = 0
    /\ retSum = F(0)
    /\ diffSum = F(0)

InitInvHist ==
    [op |-> "new", tick |-> NoTick, fill |-> NoFill, ret |-> 0,
     fills |-> 0, allOff |-> FALSE, idle |-> {}]

InitCtl == [pc |-> "idle"]

InvIdle ==
    /\ inv = AgentInventory_new
    /\ inv2 = AgentInventory_new
    /\ invHist = InitInvHist
    /\ ctl = InitCtl

AgentIdle ==
    /\ agent = ScenarioBuyer
    /\ hist = InitHist
    /\ nFills = 0

Init ==
    /\ agent \in FreshAgents
    /\ hist = InitHist
    /\ nFills = 0
    /\ PLIdle
    /\ InvIdle

Next ==
    \/ NextExposure(Prices)
    \/ TargetExposure(Prices)
    \/ Close(Prices)
    \/ TargetAction
    \/ Deactivate
    \/ UpdateOnFill(Prices, FillUnits, MaxFills)
    \/ NextExposureAndFill(Prices, PrimeUnits, MaxFills)

Spec == Init /\ [][Next]_vars

\* the fresh buyer of the scenario, driven on the scenario's price grid
InitScenario ==
    /\ agent = ScenarioBuyer
    /\ hist = InitHist
    /\ nFills = 0
    /\ PLIdle
    /\ InvIdle

NextScenario ==
    \/ NextExposure(ScenarioPrices)
    \/ UpdateOnFill(ScenarioPrices, ScenarioUnits, MaxFills)

SpecScenario == InitScenario /\ [][NextScenario]_vars

----------------------------------------------------------------------------
(* An AgentPL driven directly through buy and sell, from flat.             *)

PLPrices == {1, 2, 4}

\* units of the position that a buy (side = 1) or a sell (side = -1) closes
Closed(p, side, units) ==
    IF side = 1 /\ p.exposure < 0 THEN Min(units, -p.exposure)
    ELSE IF side = -1 /\ p.exposure > 0 THEN Min(units, p.exposure)
    ELSE 0

Trade(op, side, x, units, q) ==
    LET c == Closed(pl, side, units)
    IN  /\ plHist.n < MaxTrades
        /\ pl' = q
        /\ plHist' = [op |-> op, x |-> x, units |-> units, n |-> plHist.n + 1,
                      flip |-> c > 0 /\ units > c]
        /\ netVolume' = netVolume + side * units
        /\ retSum' = IF c = 0 THEN retSum
                     ELSE FAdd(retSum, FMul(F(-side * c),
                                            FSub(FDiv(x, pl.price_average), F(1))))
        /\ diffSum' = IF c = 0 THEN diffSum
                      ELSE FAdd(diffSum, FMul(F(-side * c),
                                              FSub(x, pl.price_average)))
        /\ UNCHANGED <<agentVars, invVars>>

Buy ==
    \E x \in PLPrices, units \in 1..MaxUnits :
        Trade("buy", 1, F(x), units, buy(pl, F(x), units))

Sell ==
    \E x \in PLPrices, units \in 1..MaxUnits :
        Trade("sell", -1, F(x), units, sell(pl, F(x), units))

InitPL ==
    /\ agent = ScenarioBuyer
    /\ hist = InitHist
    /\ nFills = 0
    /\ PLIdle
    /\ InvIdle

NextPL == Buy \/ Sell

SpecPL == InitPL /\ [][NextPL]_vars

----------------------------------------------------------------------------
(* An AgentInventory of two members driven through its Agent operations.   *)

MemberA == symmetric(F(2), F(6), F(1), Q(1, 2), F(3), Q(1, 5))
MemberB == buyer(F(3), F(5), F(1), F(1), F(2))

TwoMembers ==
    [agents |-> [n \in {"a", "b"} |-> IF n = "a" THEN MemberA ELSE MemberB],
     pl |-> F(0)]

\* the ticks of an uncrossed market
MarketTicks(P) == {t \in Ticks(P) : FLe(t.bid, t.ask)}

InvRecord(op, tick, fill, ret) ==
    [op |-> op, tick |-> tick, fill |-> fill, ret |-> ret,
     fills |-> invHist.fills + (IF fill = NoFill THEN 0 ELSE 1),
     allOff |-> invHist.allOff \/ op = "deactivate",
     idle |-> {n \in Keys(inv) : ~is_active(inv.agents[n])}]

InvNextExposure ==
    \E tick \in MarketTicks(Prices), order \in Orders(Keys(inv)) :
        LET r == AgentInventory_next_exposure(inv, tick, order)
        IN  /\ inv' = r.inv
            /\ invHist' = InvRecord("next_exposure", tick, NoFill, r.ret)
            /\ UNCHANGED <<agentVars, plVars, inv2, ctl>>

InvUpdateOnFill ==
    /\ invHist.fills < MaxInvFills
    /\ \E fill \in Fills(Prices, PrimeUnits), order \in Orders(Keys(inv)) :
        /\ inv' = AgentInventory_update_on_fill(inv, fill, order)
        /\ invHist' = InvRecord("update_on_fill", NoTick, fill, 0)
    /\ UNCHANGED <<agentVars, plVars, inv2, ctl>>

InvNextExposureAndFill ==
    /\ invHist.fills < MaxInvFills
    /\ \E fill \in Fills(Prices, PrimeUnits) :
       \E order1 \in Orders(Keys(inv)), order2 \in Orders(Keys(inv)) :
        /\ inv' = AgentInventory_next_exposure_and_fill(inv, fill, order1, order2)
        /\ invHist' = InvRecord("next_exposure_and_fill", NoTick, fill, 0)
    /\ UNCHANGED <<agentVars, plVars, inv2, ctl>>

InvClose ==
    \E tick \in MarketTicks(Prices), order \in Orders(Keys(inv)) :
        /\ inv' = AgentInventory_close(inv, tick, order)
        /\ invHist' = InvRecord("close", tick, NoFill, 0)
        /\ UNCHANGED <<agentVars, plVars, inv2, ctl>>

InvDeactivate ==
    \E order \in Orders(Keys(inv)) :
        /\ inv' = AgentInventory_deactivate(inv, order)
        /\ invHist' = InvRecord("deactivate", NoTick, NoFill, 0)
        /\ UNCHANGED <<agentVars, plVars, inv2, ctl>>

InitInv ==
    /\ AgentIdle
    /\ PLIdle
    /\ inv = TwoMembers
    /\ inv2 = AgentInventory_new
    /\ invHist = InitInvHist
    /\ ctl = InitCtl

NextInv ==
    \/ InvNextExposure
    \/ InvUpdateOnFill
    \/ InvNextExposureAndFill
    \/ InvClose
    \/ InvDeactivate

SpecInv == InitInv /\ [][NextInv]_vars

----------------------------------------------------------------------------
(* The control loop of trade_oanda on an inventory of two members.  The    *)
(* loop is cut at its broker calls; ctl.pc is the call it is about to make. *)

\* what get_open_positions reports: the units of each open position
PositionVecs == {<<>>, <<1>>, <<3, 1>>}

NoPrev == [outcome |-> "none"]

\* the last thing an iteration did; "next_exposure" when it left through
\* the no-trade `continue`
LastEvent(ev) == IF ev = <<>> THEN "" ELSE ev[Len(ev)]

InitLoopCtl ==
    [pc |-> "top", iter |-> 0, tick |-> NoTick, positions |-> <<>>,
     target |-> 0, account |-> 0, order |-> 0,
     ev |-> <<>>,        \* what this iteration did so far, in order
     log |-> "",         \* the last line written to stderr
     called |-> {},      \* members next_exposure was called on, this iteration
     staged |-> {},      \* those of them that returned another exposure
     retry |-> FALSE,    \* same tick and positions as the unfilled prev
     prev |-> NoPrev,    \* the previous iteration, when its order was not filled
     sleeps |-> 0,       \* calls of thread::sleep so far
     afterSkip |-> FALSE] \* this iteration follows a no-trade `continue`

LoopTop_latesleep ==
    /\ ctl.pc = "top"
    /\ ctl' = [ctl EXCEPT !.iter = ctl.iter + 1,
                          !.pc = IF ctl.iter + 1 > MaxIter THEN "exited"
                                 ELSE "pricing",
                          !.sleeps = IF LastEvent(ctl.ev) \in {"", "next_exposure"}
                                     THEN ctl.sleeps ELSE ctl.sleeps + 1,
                          !.afterSkip = LastEvent(ctl.ev) = "next_exposure",
                          !.ev = <<>>, !.order = 0,
                          !.called = {}, !.staged = {}, !.retry = FALSE]
    /\ UNCHANGED <<agentVars, plVars, inv, inv2, invHist>>

\* trade_oanda.rs:85-93: sleep, count, leave after MaxIter iterations
LoopTop ==
    /\ ctl.pc = "top"
    /\ ctl' = [ctl EXCEPT !.iter = ctl.iter + 1,
                          !.pc = IF ctl.iter + 1 > MaxIter THEN "exited"
                                 ELSE "pricing",
                          !.sleeps = IF ctl.iter # 0 THEN ctl.sleeps + 1
                                     ELSE ctl.sleeps,
                          !.afterSkip = LastEvent(ctl.ev) = "next_exposure",
                          !.ev = <<>>, !.order = 0,
                          !.called = {}, !.staged = {}, !.retry = FALSE]
    /\ UNCHANGED <<agentVars, plVars, inv, inv2, invHist>>

\* trade_oanda.rs:96-100: get_pricing(...).await.unwrap().get_tick()
LoopGetPricing ==
    /\ ctl.pc = "pricing"
    /\ \/ ctl' = [ctl EXCEPT !.pc = "panicked", !.ev = Append(ctl.ev, "pricing failed")]
       \/ \E tick \in MarketTicks(Prices) :
              ctl' = [ctl EXCEPT !.pc = "positions", !.tick = tick,
                                 !.ev = Append(ctl.ev, "pricing")]
    /\ UNCHANGED <<agentVars, plVars, inv, inv2, invHist>>

\* trade_oanda.rs:106: get_open_positions().await.unwrap().to_position_vec()
LoopGetPositions ==
    /\ ctl.pc = "positions"
    /\ \/ ctl' = [ctl EXCEPT !.pc = "panicked", !.ev = Append(ctl.ev, "positions failed")]
       \/ \E positions \in PositionVecs :
              ctl' = [ctl EXCEPT !.pc = "post?", !.positions = positions,
                                 !.ev = Append(ctl.ev, "positions")]
    /\ UNCHANGED <<agentVars, plVars, inv, inv2, invHist>>

\* the members, of those next_exposure is called on, that return another
\* exposure than the one they hold
Staged(i, tick) ==
    {n \in Keys(i) : /\ is_active(i.agents[n])
                     /\ next_exposure(i.agents[n], tick).ret # exposure(i.agents[n])}

LoopCompute_noskip ==
    /\ ctl.pc = "post?"
    /\ \E order \in Orders(Keys(inv)) :
        LET r == AgentInventory_next_exposure(inv, ctl.tick, order)
            target == r.ret
            account == IF Len(ctl.positions) = 0 THEN 0
                                ELSE ctl.positions[1]
        IN  /\ inv' = r.inv
            /\ ctl' = [ctl EXCEPT
                   !.target = target,
                   !.account = account,
                   !.called = {n \in Keys(inv) : is_active(inv.agents[n])},
                   !.staged = Staged(inv, ctl.tick),
                   !.prev = NoPrev,
                   !.retry = /\ ctl.prev # NoPrev
                             /\ ctl.prev.tick = ctl.tick
                             /\ ctl.prev.positions = ctl.positions,
                   !.pc = "post",
                   !.order = target - account,
                   !.ev = ctl.ev \o <<"next_exposure", "order">>]
    /\ UNCHANGED <<agentVars, plVars, inv2, invHist>>

\* trade_oanda.rs:110-124: the target, the account exposure, the order
LoopCompute ==
    /\ ctl.pc = "post?"
    /\ \E order \in Orders(Keys(inv)) :
        LET r == AgentInventory_next_exposure(inv, ctl.tick, order)
            target == r.ret
            account == IF Len(ctl.positions) = 0 THEN 0
                                ELSE ctl.positions[1]
        IN  /\ inv' = r.inv
            /\ ctl' = [ctl EXCEPT
                   !.target = target,
                   !.account = account,
                   !.called = {n \in Keys(inv) : is_active(inv.agents[n])},
                   !.staged = Staged(inv, ctl.tick),
                   !.prev = NoPrev,
                   !.retry = /\ ctl.prev # NoPrev
                             /\ ctl.prev.tick = ctl.tick
                             /\ ctl.prev.positions = ctl.positions,
                   !.pc = IF target = account THEN "top"
                          ELSE "post",
                   !.order = IF target = account THEN 0
                             ELSE target - account,
                   !.ev = IF target = account
                          THEN Append(ctl.ev, "next_exposure")
                          ELSE ctl.ev \o <<"next_exposure", "order">>]
    /\ UNCHANGED <<agentVars, plVars, inv2, invHist>>

\* the iteration whose order was not filled, as the next one compares to
Unfilled(outcome) ==
    [outcome |-> outcome, tick |-> ctl.tick, positions |-> ctl.positions,
     order |-> ctl.order]

LoopPostFailed ==
    /\ ctl' = [ctl EXCEPT
           !.pc = "top",
           !.log = "Cannot get the Post Order to Oanda, will try again next cycle",
           !.ev = Append(ctl.ev, "post failed"),
           !.prev = Unfilled("failed")]
    /\ UNCHANGED inv

LoopPostNoFill_booked ==
    /\ ctl' = [ctl EXCEPT
           !.pc = "top",
           !.log = "Cannot get the OrderFill from response, will try again next cycle",
           !.ev = Append(ctl.ev, "no fill"),
           !.prev = Unfilled("no fill")]
    /\ \E order \in Orders(Keys(inv)) :
           inv' = AgentInventory_update_on_fill(
                      inv, [price |-> ctl.tick.bid, units |-> ctl.order], order)

LoopPostNoFill ==
    /\ ctl' = [ctl EXCEPT
           !.pc = "top",
           !.log = "Cannot get the OrderFill from response, will try again next cycle",
           !.ev = Append(ctl.ev, "no fill"),
           !.prev = Unfilled("no fill")]
    /\ UNCHANGED inv

LoopPostFilled_twice ==
    \E price \in Prices, order \in Orders(Keys(inv)) :
        /\ inv' = AgentInventory_update_on_fill(
                      inv, [price |-> F(price), units |-> ctl.order], order)
        /\ ctl' = [ctl EXCEPT
               !.pc = "top",
               !.ev = ctl.ev \o <<"fill", "update_on_fill", "update_on_fill">>]

LoopPostFilled ==
    \E price \in Prices, order \in Orders(Keys(inv)) :
        /\ inv' = AgentInventory_update_on_fill(
                      inv, [price |-> F(price), units |-> ctl.order], order)
        /\ ctl' = [ctl EXCEPT !.pc = "top",
                              !.ev = ctl.ev \o <<"fill", "update_on_fill">>]

\* trade_oanda.rs:126-138: post_order_request and what follows its outcome
LoopPost ==
    /\ ctl.pc = "post"
    /\ \/ LoopPostFailed
       \/ LoopPostNoFill
       \/ LoopPostFilled
    /\ UNCHANGED <<agentVars, plVars, inv2, invHist>>

InitLoop ==
    /\ AgentIdle
    /\ PLIdle
    /\ inv = TwoMembers
    /\ inv2 = AgentInventory_new
    /\ invHist = InitInvHist
    /\ ctl = InitLoopCtl

NextLoop ==
    \/ LoopTop
    \/ LoopGetPricing
    \/ LoopGetPositions
    \/ LoopCompute
    \/ LoopPost

SpecLoop == InitLoop /\ [][NextLoop]_vars

\* every broker call returns and the thread keeps running: the loop takes
\* its next step whenever it has one.  The last conjunct is
\* WF_vars(LoopCompute) written out: LoopCompute has a step exactly when
\* ctl.pc = "post?", next_exposure being total.
SpecLoopFair ==
    /\ SpecLoop
    /\ WF_vars(LoopTop)
    /\ WF_vars(LoopGetPricing)
    /\ WF_vars(LoopGetPositions)
    /\ WF_vars(LoopPost)
    /\ ([]<>(ctl.pc # "post?") \/ []<><<LoopCompute>>_vars)

----------------------------------------------------------------------------
(* The tools merge_from_inventory and merge_inventories.  They only move   *)
(* agents between the keys of a HashMap, so the agents are kept symbolic:  *)
(* [id |-> ...] for an agent read from a file, [merge_flat |-> <<a, b>>]   *)
(* for a.merge_flat(b).                                                    *)

Names == {"x", "y", "z"}

\* HashMap::insert, HashMap::remove
HashMap_insert_keep(agents, k, v) ==
    [n \in DOMAIN agents \cup {k} |-> IF n \in DOMAIN agents THEN agents[n] ELSE v]

HashMap_insert(agents, k, v) ==
    [n \in DOMAIN agents \cup {k} |-> IF n = k THEN v ELSE agents[n]]

HashMap_remove(agents, k) ==
    [n \in DOMAIN agents \ {k} |-> agents[n]]

\* agent1.merge_flat(agent2), symbolic
MergedAgent(agent1, agent2) == [merge_flat |-> <<agent1, agent2>>]

\* the inventory read from file number f, holding the keys S
FileInventory(f, S) ==
    [agents |-> [n \in S |-> [id |-> <<f, n>>]], pl |-> F(0)]

InitMergeHist ==
    [op |-> "new", name1 |-> "", name2 |-> "", outname |-> "",
     outcome |-> "", n |-> 0, collide |-> {}]

\* merge_from_inventory.rs:25-54, one run; a name that is not a key makes
\* get(..).unwrap() panic before anything is written
MergeFromInventory ==
    /\ invHist.n < MaxMerges
    /\ \E name1 \in Names, name2 \in Names, outname \in Names :
        LET ok == name1 \in Keys(inv) /\ name2 \in Keys(inv)
            merged == MergedAgent(inv.agents[name1], inv.agents[name2])
        IN  /\ inv' = IF ok
                      THEN [inv EXCEPT !.agents =
                               HashMap_remove(
                                   HashMap_remove(
                                       HashMap_insert(inv.agents, outname, merged),
                                       name1),
                                   name2)]
                      ELSE inv
            /\ invHist' = [op |-> "merge_from_inventory", name1 |-> name1,
                           name2 |-> name2, outname |-> outname,
                           outcome |-> IF ok THEN "printed" ELSE "panicked",
                           n |-> invHist.n + 1, collide |-> {}]
    /\ UNCHANGED <<agentVars, plVars, inv2, ctl>>

RECURSIVE InsertAll(_, _, _, _)
\* merge_inventories.rs:43-46: each entry of hedger2, in the order of the
\* visit, is cloned and inserted into hedger1
InsertAll(agents1, agents2, order, k) ==
    IF k > Len(order) THEN agents1
    ELSE InsertAll(HashMap_insert(agents1, order[k], agents2[order[k]]),
                   agents2, order, k + 1)

\* merge_inventories.rs:18-51, one run
MergeInventories ==
    /\ invHist.n < MaxMerges
    /\ \E order \in Orders(Keys(inv2)) :
           inv' = [inv EXCEPT !.agents = InsertAll(inv.agents, inv2.agents, order, 1)]
    /\ invHist' = [op |-> "merge_inventories", name1 |-> "", name2 |-> "",
                   outname |-> "", outcome |-> "printed",
                   n |-> invHist.n + 1,
                   collide |-> Keys(inv) \cap Keys(inv2)]
    /\ UNCHANGED <<agentVars, plVars, inv2, ctl>>

InitMerge ==
    /\ AgentIdle
    /\ PLIdle
    /\ \E S \in SUBSET Names : inv = FileInventory(1, S)
    /\ \E S \in SUBSET Names : inv2 = FileInventory(2, S)
    /\ invHist = InitMergeHist
    /\ ctl = InitCtl

NextMerge == MergeFromInventory \/ MergeInventories

SpecMerge == InitMerge /\ [][NextMerge]_vars

----------------------------------------------------------------------------
(* A GearHedger as its constructor leaves it: its gear evaluated at the    *)
(* prices of a grid of half units, and its first next_exposure.            *)

\* the (price0, price1) of the constructors
Bands == {<<2, 4>>, <<3, 5>>, <<2, 6>>}

\* the gears of positive, negative, symmetric and constant
FourGears ==
    {Gear_positive(F(b[1]), F(b[2])) : b \in Bands}
        \cup {Gear_negative(F(b[1]), F(b[2])) : b \in Bands}
        \cup {Gear_symmetric(F(b[1]), F(b[2])) : b \in Bands}
        \cup {Gear_constant(1), Gear_constant(-1)}

GAgents ==
    {[kind |-> "OHLC", open |-> F(3), high |-> F(6), low |-> F(2),
      close |-> F(4), scale |-> F(1), exposure |-> F(3), target |-> <<>>],
     [kind |-> "OHLC", open |-> F(5), high |-> F(6), low |-> F(2),
      close |-> F(3), scale |-> F(1), exposure |-> F(3), target |-> <<Q(1, 5)>>],
     [kind |-> "CL", direction |-> 1, price |-> F(3), scale |-> F(1),
      size |-> F(1), i0 |-> <<>>, imax |-> F(2), target |-> <<>>],
     [kind |-> "CL", direction |-> -1, price |-> F(4), scale |-> Q(1, 2),
      size |-> F(2), i0 |-> <<F(1)>>, imax |-> F(2), target |-> <<Q(1, 5)>>],
     [kind |-> "Symmetric", pmid |-> F(4), span |-> F(2), scale |-> F(1),
      exposure |-> F(3), target |-> Q(1, 5)],
     [kind |-> "Buy", price0 |-> F(3), price1 |-> F(5), scale |-> F(1),
      exposure |-> F(2)],
     [kind |-> "Sell", price0 |-> F(3), price1 |-> F(5), scale |-> F(1),
      exposure |-> F(2)],
     [kind |-> "JumpLong", price0 |-> F(4), scale |-> F(1), exposure |-> F(2)],
     [kind |-> "Coastline", direction |-> 1, price0 |-> F(4), scale |-> F(1),
      size |-> F(1), imax |-> F(2)],
     [kind |-> "Segment", price0 |-> F(2), exposure0 |-> F(3), pricen |-> F(6),
      exposuren |-> F(-1), scale |-> F(1), target |-> Q(1, 5)]}

ConstructedAgents ==
    {buyer(F(b[1]), F(b[2]), F(1), F(1), F(2)) : b \in Bands}
        \cup {seller(F(b[1]), F(b[2]), F(1), F(1), F(2)) : b \in Bands}
        \cup {symmetric(F(b[1]), F(b[2]), F(1), Q(1, 2), F(3), Q(1, 5)) : b \in Bands}
        \cup {constant(F(2)), constant(F(-2))}
        \cup {jump(F(4), F(1), F(0), F(1), F(1), F(2)),
              coastline(-1, F(4), F(1), F(1), F(2)),
              segment(F(2), F(1), F(6), F(-3), F(1), Q(1, 5))}
        \cup {GAgent_build(g) : g \in GAgents}

\* prices 2, 2.5, ..., 6
HalfPrices == {Q(n, 2) : n \in 4..12}

FreshTicks ==
    {[bid |-> t[1], ask |-> t[2]] : t \in {u \in HalfPrices \X HalfPrices : FLe(u[1], u[2])}}

\* prices 0.5, 1, ..., 6.5: below, at and above every p_0 and p_n
EvalPoints == {Q(n, 2) : n \in 1..13}

InitFreshHist == [op |-> "new", x |-> F(0), tick |-> NoTick, ret |-> F(0)]

\* gear_f.g(x)
FreshEval ==
    /\ hist.op # "next_exposure"
    /\ \E x \in EvalPoints :
           hist' = [op |-> "g", x |-> x, tick |-> NoTick,
                    ret |-> Gear_g(agent.gear_f, x)]
    /\ UNCHANGED <<agent, nFills, plVars, invVars>>

\* the first next_exposure of the agent
FreshNextExposure ==
    /\ hist.op # "next_exposure"
    /\ \E tick \in FreshTicks :
        LET r == next_exposure(agent, tick)
        IN  /\ agent' = r.agent
            /\ hist' = [op |-> "next_exposure", x |-> F(0), tick |-> tick,
                        ret |-> F(r.ret)]
    /\ UNCHANGED <<nFills, plVars, invVars>>

InitFresh ==
    /\ agent \in ConstructedAgents
    /\ hist = InitFreshHist
    /\ nFills = 0
    /\ PLIdle
    /\ InvIdle

NextFresh == FreshEval \/ FreshNextExposure

SpecFresh == InitFresh /\ [][NextFresh]_vars

----------------------------------------------------------------------------
(* A GearHedger driven through its operations, merge_flat with another     *)
(* agent among them.                                                       *)

DrivePrices == {3, 5}

\* the agents merged in: a flat buyer, a buyer long 2 at 5, a symmetric
\* agent short 1 at 5
Partners ==
    {MemberB,
     next_exposure_and_fill(MemberB, [price |-> F(5), units |-> 2]),
     next_exposure_and_fill(MemberA, [price |-> F(5), units |-> -1])}

DriveRecord(op, tick, fill, other) ==
    [op |-> op, tick |-> tick, fill |-> fill, other |-> other, n |-> hist.n + 1]

InitDriveHist ==
    [op |-> "new", tick |-> NoTick, fill |-> NoFill, other |-> MemberB, n |-> 0]

DriveNextExposure ==
    /\ hist.n < MaxDrive
    /\ \E tick \in Ticks(DrivePrices) :
        /\ agent' = next_exposure(agent, tick).agent
        /\ hist' = DriveRecord("next_exposure", tick, NoFill, MemberB)
    /\ UNCHANGED <<nFills, plVars, invVars>>

DriveClose ==
    /\ hist.n < MaxDrive
    /\ \E tick \in Ticks(DrivePrices) :
        /\ agent' = close(agent, tick)
        /\ hist' = DriveRecord("close", tick, NoFill, MemberB)
    /\ UNCHANGED <<nFills, plVars, invVars>>

DriveUpdateOnFill ==
    /\ hist.n < MaxDrive
    /\ \E fill \in Fills(DrivePrices, FillUnits) :
        /\ agent' = update_on_fill(agent, fill)
        /\ hist' = DriveRecord("update_on_fill", NoTick, fill, MemberB)
    /\ UNCHANGED <<nFills, plVars, invVars>>

DriveNextExposureAndFill ==
    /\ hist.n < MaxDrive
    /\ \E fill \in Fills(DrivePrices, FillUnits) :
        /\ agent' = next_exposure_and_fill(agent, fill)
        /\ hist' = DriveRecord("next_exposure_and_fill", NoTick, fill, MemberB)
    /\ UNCHANGED <<nFills, plVars, invVars>>

DriveMergeFlat ==
    /\ hist.n < MaxDrive
    /\ \E other \in Partners :
        /\ agent' = merge_flat(agent, other)
        /\ hist' = DriveRecord("merge_flat", NoTick, NoFill, other)
    /\ UNCHANGED <<nFills, plVars, invVars>>

InitDrive ==
    /\ agent \in {MemberA, MemberB}
    /\ hist = InitDriveHist
    /\ nFills = 0
    /\ PLIdle
    /\ InvIdle

NextDrive ==
    \/ DriveNextExposure
    \/ DriveClose
    \/ DriveUpdateOnFill
    \/ DriveNextExposureAndFill
    \/ DriveMergeFlat

SpecDrive == InitDrive /\ [][NextDrive]_vars

----------------------------------------------------------------------------
(* An agent with a non-increasing gear driven by ticks and fills only, the *)
(* fills at any price.                                                     *)

\* one agent of each of the gears positive, negative, symmetric
TradingAgents ==
    {buyer(F(2), F(6), F(1), F(1), F(3)),
     seller(F(2), F(6), F(1), F(1), F(3)),
     symmetric(F(2), F(6), F(1), Q(1, 2), F(3), Q(1, 5))}

\* faithful: every fill so far came at the price that was staged
TradeRecord(op, tick, fill) ==
    [op |-> op, tick |-> tick, fill |-> fill,
     faithful |-> /\ hist.faithful
                  /\ op = "update_on_fill" => fill.price = agent.tentative_price]

InitTradeHist ==
    [op |-> "new", tick |-> NoTick, fill |-> NoFill, faithful |-> TRUE]

TradeNextExposure ==
    /\ \E tick \in Ticks(Prices) :
        /\ agent' = next_exposure(agent, tick).agent
        /\ hist' = TradeRecord("next_exposure", tick, NoFill)
    /\ UNCHANGED <<nFills, plVars, invVars>>

TradeUpdateOnFill ==
    /\ nFills < MaxFills
    /\ \E fill \in Fills(Prices, PrimeUnits) :
        /\ agent' = update_on_fill(agent, fill)
        /\ hist' = TradeRecord("update_on_fill", NoTick, fill)
    /\ nFills' = nFills + 1
    /\ UNCHANGED <<plVars, invVars>>

InitTrade ==
    /\ agent \in TradingAgents
    /\ hist = InitTradeHist
    /\ nFills = 0
    /\ PLIdle
    /\ InvIdle

NextTrade == TradeNextExposure \/ TradeUpdateOnFill

SpecTrade == InitTrade /\ [][NextTrade]_vars

----------------------------------------------------------------------------
(* An agent of every constructor driven by next_exposure, target_exposure, *)
(* close and update_on_fill, with any tick and fills at any price.         *)

\* the prices of the ticks and fills: the ends of the bands, one price
\* inside them where gear * max_exposure is truncated
BoundPrices == {2, 3, 6}

BoundAgents ==
    {buyer(F(2), F(6), F(1), F(1), Q(5, 2)),
     seller(F(2), F(6), F(1), F(1), Q(5, 2)),
     symmetric(F(2), F(6), F(1), Q(1, 2), F(3), Q(1, 5)),
     constant(F(2)), constant(F(-2)),
     jump(F(4), F(1), F(0), F(1), F(1), F(2)),
     coastline(-1, F(4), F(1), F(1), F(2)),
     segment(F(2), F(1), F(6), F(-3), F(1), Q(1, 5)),
     GAgent_build([kind |-> "OHLC", open |-> F(3), high |-> F(6), low |-> F(2),
                   close |-> F(4), scale |-> F(1), exposure |-> F(3),
                   target |-> <<>>]),
     GAgent_build([kind |-> "CL", direction |-> 1, price |-> F(3),
                   scale |-> F(1), size |-> F(1), i0 |-> <<>>, imax |-> F(2),
                   target |-> <<>>])}

BoundRecord(op, tick, fill) == [op |-> op, tick |-> tick, fill |-> fill]

InitBoundHist == BoundRecord("new", NoTick, NoFill)

BoundNextExposure ==
    /\ \E tick \in Ticks(BoundPrices) :
        /\ agent' = next_exposure(agent, tick).agent
        /\ hist' = BoundRecord("next_exposure", tick, NoFill)
    /\ UNCHANGED <<nFills, plVars, invVars>>

BoundTargetExposure ==
    /\ \E tick \in Ticks(BoundPrices) :
        /\ agent' = target_exposure(agent, tick).agent
        /\ hist' = BoundRecord("target_exposure", tick, NoFill)
    /\ UNCHANGED <<nFills, plVars, invVars>>

BoundClose ==
    /\ \E tick \in Ticks(BoundPrices) :
        /\ agent' = close(agent, tick)
        /\ hist' = BoundRecord("close", tick, NoFill)
    /\ UNCHANGED <<nFills, plVars, invVars>>

BoundUpdateOnFill ==
    /\ nFills < MaxFills
    /\ \E fill \in Fills(BoundPrices, PrimeUnits) :
        /\ agent' = update_on_fill(agent, fill)
        /\ hist' = BoundRecord("update_on_fill", NoTick, fill)
    /\ nFills' = nFills + 1
    /\ UNCHANGED <<plVars, invVars>>

InitBound ==
    /\ agent \in BoundAgents
    /\ hist = InitBoundHist
    /\ nFills = 0
    /\ PLIdle
    /\ InvIdle

NextBound ==
    \/ BoundNextExposure
    \/ BoundTargetExposure
    \/ BoundClose
    \/ BoundUpdateOnFill

SpecBound == InitBound /\ [][NextBound]_vars

----------------------------------------------------------------------------
(* Properties.  In an action property the unprimed agent is the state the  *)
(* operation recorded in hist' was applied to, and the unprimed hist is    *)
(* the operation before it.                                                *)

Rearmed(a, p, up, down) ==
    /\ a.nextSellPrice = FAdd(p, up)
    /\ a.nextBuyPrice = FSub(p, down)
    /\ a.lastTradePrice = p

\* C1, as claimed: after every update_on_fill at price p, whatever the staged
\* tentative_exposure, next_sell_price = p + scale_up, next_buy_price =
\* p - scale_down and last_trade_price = p.
C1_RearmedAfterEveryFill ==
    [][hist'.op = "update_on_fill"
         => Rearmed(agent', hist'.fill.price, agent.scaleUp, agent.scaleDown)]_vars

\* C1, amended: an update_on_fill at price p whose staged tentative_exposure
\* differs from the exposure rearms the trip-wires around p; one whose staged
\* tentative_exposure equals the exposure leaves the three prices unchanged.
C1_RearmedOnTrade ==
    [][hist'.op = "update_on_fill"
         => IF agent.tentative_exposure # exposure(agent)
            THEN Rearmed(agent', hist'.fill.price, agent.scaleUp, agent.scaleDown)
            ELSE /\ agent'.nextSellPrice = agent.nextSellPrice
                 /\ agent'.nextBuyPrice = agent.nextBuyPrice
                 /\ agent'.lastTradePrice = agent.lastTradePrice]_vars

C1_Witness ==
    /\ hist.op = "update_on_fill"
    /\ hist.traded # 0
    /\ Rearmed(agent, hist.fill.price, agent.scaleUp, agent.scaleDown)

\* a tick of an uncrossed market
Uncrossed(tick) == FLe(tick.bid, tick.ask)

InBand(a, tick) ==
    FLt(tick.bid, a.nextSellPrice) /\ FGt(tick.ask, a.nextBuyPrice)

Untouched(a, b, ret) ==
    /\ ret = exposure(a)
    /\ b.tentative_price = a.tentative_price
    /\ b.tentative_exposure = a.tentative_exposure

\* C2, as claimed: for any tick with bid < next_sell_price and ask >
\* next_buy_price, next_exposure returns the current exposure and leaves the
\* staging cell unchanged, for any target and any PL (stated here for the
\* ticks of an uncrossed market and an active agent only).
C2_NoTradeInBand ==
    [][/\ hist'.op = "next_exposure" /\ InBand(agent, hist'.tick)
       /\ Uncrossed(hist'.tick) /\ agent.active
       => Untouched(agent, agent', hist'.ret)]_vars

\* C2, amended: for any tick strictly inside the band for which the
\* profit-take condition pl_at_price(close_price) > target does not hold,
\* next_exposure returns the current exposure and leaves the agent unchanged;
\* target_exposure does so for every tick inside the band.
C2_NoTradeInBandUnlessTake ==
    [][/\ hist'.op = "next_exposure" /\ InBand(agent, hist'.tick)
             /\ ~TakeDue(agent, hist'.tick)
          => Untouched(agent, agent', hist'.ret) /\ agent' = agent
       /\ hist'.op = "target_exposure" /\ InBand(agent, hist'.tick)
          => Untouched(agent, agent', hist'.ret) /\ agent' = agent]_vars

C2_Witness ==
    /\ hist.op = "next_exposure"
    /\ ~hist.take /\ ~hist.bidDue /\ ~hist.askDue
    /\ exposure(agent) # 0
    /\ hist.ret = exposure(agent)
    /\ agent.tentative_exposure # exposure(agent)

TakeStaged(a, b, tick, ret) ==
    /\ ret = 0
    /\ b.tentative_price = close_price(a, tick)
    /\ b.tentative_exposure = 0

\* C3, as claimed: when pl_at_price(close_price) > target, next_exposure
\* returns 0 and stages (close_price, 0); after the following update_on_fill
\* the agent is flat, inactive, and its cum_profit exceeds the target
\* (stated here for the ticks of an uncrossed market only).
C3_ProfitTakeAboveTarget ==
    [][/\ hist'.op = "next_exposure" /\ TakeDue(agent, hist'.tick)
          => TakeStaged(agent, agent', hist'.tick, hist'.ret)
       /\ hist.op = "next_exposure" /\ hist.take /\ Uncrossed(hist.tick)
             /\ hist'.op = "update_on_fill"
          => /\ exposure(agent') = 0
             /\ FGt(agent'.agentPL.cum_profit, agent.target)
             /\ ~agent'.active]_vars

\* C3, amended: when pl_at_price(close_price) > target, next_exposure returns
\* 0 and stages (close_price, 0); after the following update_on_fill at price
\* q the agent is flat and inactive and its cum_profit is the former
\* pl_at_price(q), which exceeds the target when q is the staged close_price.
C3_ProfitTakeAtFillPrice ==
    [][/\ hist'.op = "next_exposure" /\ TakeDue(agent, hist'.tick)
          => TakeStaged(agent, agent', hist'.tick, hist'.ret)
       /\ hist.op = "next_exposure" /\ hist.take /\ hist'.op = "update_on_fill"
          => /\ exposure(agent') = 0
             /\ ~agent'.active
             /\ agent'.agentPL.cum_profit
                    = pl_at_price(agent.agentPL, hist'.fill.price)
             /\ hist'.fill.price = agent.tentative_price
                    => FGt(agent'.agentPL.cum_profit, agent.target)]_vars

C3_Witness ==
    /\ hist.op = "update_on_fill"
    /\ hist.afterTake
    /\ hist.traded # 0
    /\ exposure(agent) = 0
    /\ ~agent.active
    /\ FGt(agent.agentPL.cum_profit, agent.target)

\* C4: after a next_exposure that staged a tentative, update_on_fill makes
\* exposure() the staged tentative_exposure, the value next_exposure
\* returned, for any fill price and any fill.units, by selling |traded| when
\* traded = tentative_exposure - exposure is negative, buying it when
\* positive, and leaving the PL alone when zero.
C4_FillReachesTentative ==
    [][/\ hist.op = "next_exposure"
       /\ hist.take \/ hist.bidDue \/ hist.askDue
       /\ hist'.op = "update_on_fill"
       => LET traded == agent.tentative_exposure - exposure(agent)
              x == hist'.fill.price
          IN  /\ exposure(agent') = agent.tentative_exposure
              /\ exposure(agent') = hist.ret
              /\ exposure(agent') - exposure(agent) = traded
              /\ traded = 0 => agent'.agentPL = agent.agentPL
              /\ traded < 0 => agent'.agentPL = sell(agent.agentPL, x, -traded)
              /\ traded > 0 => agent'.agentPL = buy(agent.agentPL, x, traded)]_vars

C4_Witness ==
    /\ hist.op = "update_on_fill"
    /\ hist.afterStage
    /\ hist.traded # 0
    /\ hist.fill.units # hist.traded
    /\ hist.fill.price # agent.tentative_price
    /\ exposure(agent) = agent.tentative_exposure

BidStaged(a, b, tick, ret) ==
    /\ b.tentative_price = tick.bid
    /\ b.tentative_exposure = AsI64(FMul(Gear_g(a.gear_f, tick.bid), a.max_exposure))
    /\ ret = b.tentative_exposure

\* C5, as claimed: in one call of next_exposure or target_exposure with both
\* bid >= next_sell_price and ask <= next_buy_price, only the bid branch
\* fires: the cell holds (bid, trunc(g(bid) * max_exposure)).
C5_BidBranchOnly ==
    [][/\ hist'.op \in {"next_exposure", "target_exposure"}
       /\ BidDue(agent, hist'.tick) /\ AskDue(agent, hist'.tick)
       => BidStaged(agent, agent', hist'.tick, hist'.ret)]_vars

\* C5, amended: in one call of target_exposure, or of next_exposure when the
\* profit-take condition does not hold, with both bid >= next_sell_price and
\* ask <= next_buy_price, only the bid branch fires: the cell holds
\* (bid, trunc(g(bid) * max_exposure)); when the profit-take condition holds
\* next_exposure stages (close_price, 0) instead.
C5_BidBranchOnlyUnlessTake ==
    [][/\ hist'.op \in {"next_exposure", "target_exposure"}
       /\ BidDue(agent, hist'.tick) /\ AskDue(agent, hist'.tick)
       => IF hist'.op = "next_exposure" /\ TakeDue(agent, hist'.tick)
          THEN TakeStaged(agent, agent', hist'.tick, hist'.ret)
          ELSE BidStaged(agent, agent', hist'.tick, hist'.ret)]_vars

C5_Witness ==
    /\ hist.op \in {"next_exposure", "target_exposure"}
    /\ hist.bidDue /\ hist.askDue /\ ~hist.take
    /\ hist.tick.bid # hist.tick.ask
    /\ agent.tentative_price = hist.tick.bid
    /\ Gear_g(agent.gear_f, hist.tick.bid) # Gear_g(agent.gear_f, hist.tick.ask)

\* C6: once active is false no operation of the agent sets it back to true.
C6_DeactivatedIsTerminal ==
    [][~agent.active => ~agent'.active]_vars

C6_Witness ==
    /\ ~hist.wasActive
    /\ hist.op = "update_on_fill"
    /\ hist.traded # 0
    /\ ~to_be_closed(agent)
    /\ ~agent.active

\* C7, as claimed: on the fresh buyer(1.00, 2.00, 0.01, 0.01, 1000) the tick
\* (bid 1.50, ask 1.51) makes next_exposure return 500; after the fill at the
\* staged price, exposure = 500, next_buy_price = 1.50, next_sell_price = 1.52.
C7_FirstTickStages500 ==
    [][/\ hist.op = "new" /\ agent = ScenarioBuyer
             /\ hist'.op = "next_exposure" /\ hist'.tick = ScenarioTick
          => hist'.ret = 500
       /\ hist.first /\ hist.op = "next_exposure" /\ hist.tick = ScenarioTick
             /\ hist'.op = "update_on_fill"
             /\ hist'.fill.price = agent.tentative_price
          => /\ exposure(agent') = 500
             /\ agent'.nextBuyPrice = F(150)
             /\ agent'.nextSellPrice = F(152)]_vars

\* C7, amended: on the fresh buyer(1.00, 2.00, 0.01, 0.01, 1000) the tick
\* (bid 1.50, ask 1.51) makes next_exposure return 490, the gear at the ask
\* 1.51, staged at price 1.51; after the fill at 1.51, exposure = 490,
\* next_buy_price = 1.50 and next_sell_price = 1.52.
C7_FirstTickStages490 ==
    [][/\ hist.op = "new" /\ agent = ScenarioBuyer
             /\ hist'.op = "next_exposure" /\ hist'.tick = ScenarioTick
          => /\ hist'.ret = 490
             /\ agent'.tentative_exposure = 490
             /\ agent'.tentative_price = F(151)
       /\ hist.first /\ hist.op = "next_exposure" /\ hist.tick = ScenarioTick
             /\ hist'.op = "update_on_fill"
             /\ hist'.fill.price = F(151)
          => /\ exposure(agent') = 490
             /\ agent'.nextBuyPrice = F(150)
             /\ agent'.nextSellPrice = F(152)]_vars

C7_Witness ==
    /\ hist.op = "update_on_fill"
    /\ hist.afterFirst
    /\ hist.prevTick = ScenarioTick
    /\ hist.fill.price = F(151)
    /\ exposure(agent) = 490

\* C8: after any sequence of buy / sell calls with units > 0 from a flat PL,
\* exposure is the bought units minus the sold units, so it is 0 whenever
\* that net volume is 0.
C8_ExposureIsNetVolume ==
    pl.exposure = netVolume

C8_Witness ==
    /\ plHist.n >= 3
    /\ netVolume = 0
    /\ pl.exposure = 0
    /\ plHist.op = "sell"

\* C9: a buy / sell against the position with units > |exposure| realizes
\* the whole old position at the fill price x (cum_profit grows by
\* old_exposure * (x / old_price_average - 1)), leaves the remainder as the
\* exposure on the other side, and makes price_average x.
C9_SignFlip ==
    [][LET x == plHist'.x
           u == plHist'.units
           gain == FMul(F(pl.exposure), FSub(FDiv(x, pl.price_average), F(1)))
       IN  /\ plHist'.op = "buy" /\ pl.exposure < 0 /\ u > -pl.exposure
              => /\ pl'.cum_profit = FAdd(pl.cum_profit, gain)
                 /\ pl'.exposure = u + pl.exposure
                 /\ pl'.exposure > 0
                 /\ pl'.price_average = x
           /\ plHist'.op = "sell" /\ pl.exposure > 0 /\ u > pl.exposure
              => /\ pl'.cum_profit = FAdd(pl.cum_profit, gain)
                 /\ pl'.exposure = pl.exposure - u
                 /\ pl'.exposure < 0
                 /\ pl'.price_average = x]_vars

C9_Witness ==
    /\ plHist.flip
    /\ plHist.op = "buy"
    /\ pl.exposure > 0
    /\ pl.price_average = plHist.x
    /\ pl.cum_profit # F(0)

\* C10, as claimed: after buy / sell calls whose net volume is zero,
\* cum_profit is the sum over the closed units of price_sell - price_buy,
\* the opening price of a unit being the average price when it is closed.
C10_RealizedIsPriceDifference ==
    netVolume = 0 => pl.cum_profit = diffSum

\* C10, amended: after buy / sell calls whose net volume is zero, cum_profit
\* is the sum over the closed units of the relative return
\* (price_sell - price_buy) / average price at the close, that is of
\* x / price_average - 1 for a closed long unit and its opposite for a short.
C10_RealizedIsRelativeReturn ==
    netVolume = 0 => pl.cum_profit = retSum

C10_Witness ==
    /\ netVolume = 0
    /\ plHist.n >= 2
    /\ pl.cum_profit = retSum
    /\ retSum # diffSum
    /\ retSum # F(0)

\* C11: a buy / sell against the position with units <= |exposure| keeps
\* price_average, shrinks |exposure| by units and moves cum_profit by
\* (signed closed units) * (x / price_average - 1); a buy / sell that grows
\* the position, or opens one from flat, leaves cum_profit unchanged.
C11_PartialClose ==
    [][LET x == plHist'.x
           u == plHist'.units
           ret == FSub(FDiv(x, pl.price_average), F(1))
       IN  /\ plHist'.op = "buy" /\ pl.exposure < 0 /\ u <= -pl.exposure
              => /\ pl'.price_average = pl.price_average
                 /\ pl'.exposure = pl.exposure + u
                 /\ Abs(pl'.exposure) = Abs(pl.exposure) - u
                 /\ pl'.cum_profit = FAdd(pl.cum_profit, FMul(F(-u), ret))
                 /\ FLt(x, pl.price_average)
                        => FGt(pl'.cum_profit, pl.cum_profit)
           /\ plHist'.op = "sell" /\ pl.exposure > 0 /\ u <= pl.exposure
              => /\ pl'.price_average = pl.price_average
                 /\ pl'.exposure = pl.exposure - u
                 /\ Abs(pl'.exposure) = Abs(pl.exposure) - u
                 /\ pl'.cum_profit = FAdd(pl.cum_profit, FMul(F(u), ret))
                 /\ FGt(x, pl.price_average)
                        => FGt(pl'.cum_profit, pl.cum_profit)
           /\ \/ plHist'.op = "buy" /\ pl.exposure >= 0
              \/ plHist'.op = "sell" /\ pl.exposure <= 0
              => /\ pl'.cum_profit = pl.cum_profit
                 /\ Abs(pl'.exposure) = Abs(pl.exposure) + u]_vars

\* a short partly closed below its average, with a profit
C11_Witness ==
    /\ plHist.op = "buy"
    /\ ~plHist.flip
    /\ pl.exposure < 0
    /\ FLt(plHist.x, pl.price_average)
    /\ FGt(pl.cum_profit, F(0))

\* what the claims call the accounting and the trip-wires of a member
Accounting(a) ==
    <<a.agentPL.exposure, a.agentPL.price_average, a.agentPL.cum_profit,
      a.nextBuyPrice, a.nextSellPrice, a.lastTradePrice>>

\* the step of the loop that broadcasts a fill
Broadcast == ctl.pc = "post" /\ ctl'.ev = ctl.ev \o <<"fill", "update_on_fill">>

\* C12, as claimed: when the tick of an iteration makes only member A stage
\* a trade (B's next_exposure returns B's current exposure), then after the
\* fill is broadcast A's exposure is A's tentative_exposure and B's exposure,
\* price_average, cum_profit and trip-wires are unchanged.
C12_BroadcastIsolation ==
    [][\A A \in Keys(inv), B \in Keys(inv) :
          /\ Broadcast
          /\ ctl.staged = {A}
          /\ B \in ctl.called \ {A}
          => /\ exposure(inv'.agents[A]) = inv.agents[A].tentative_exposure
             /\ Accounting(inv'.agents[B]) = Accounting(inv.agents[B])]_vars

\* the events of a sequence, how often one occurs
Events(ev) == {ev[k] : k \in DOMAIN ev}
Count(ev, e) == Cardinality({k \in DOMAIN ev : ev[k] = e})

\* C13: an iteration issues at most one order, of target - account_exposure
\* units, target being inventory.next_exposure(tick) and account_exposure
\* the units of the first reported position (0 if none); with target =
\* account_exposure there is no order and no update_on_fill; no order has
\* zero units.
C13_OneOrderOfTheDifference ==
    [][/\ ctl.pc = "post?"
          => /\ \A order \in Orders(Keys(inv)) :
                   ctl'.target = AgentInventory_next_exposure(inv, ctl.tick, order).ret
             /\ ctl'.account = IF ctl.positions = <<>> THEN 0 ELSE Head(ctl.positions)
             /\ IF ctl'.target = ctl'.account
                THEN /\ ctl'.pc = "top"
                     /\ "order" \notin Events(ctl'.ev)
                ELSE /\ ctl'.pc = "post"
                     /\ ctl'.order = ctl'.target - ctl'.account
       /\ Count(ctl'.ev, "order") <= 1
       /\ ctl'.pc = "post" => "order" \in Events(ctl'.ev) /\ ctl'.order # 0
       /\ "order" \in Events(ctl'.ev)
          => ctl'.order = ctl'.target - ctl'.account /\ ctl'.order # 0
       /\ "update_on_fill" \in Events(ctl'.ev)
          => "order" \in Events(ctl'.ev) /\ ctl'.target # ctl'.account]_vars

\* an order to sell part of what the account holds has just been issued
C13_Witness ==
    /\ ctl.pc = "post"
    /\ ctl.account = 3
    /\ ctl.target = 1
    /\ ctl.order = -2
    /\ LastEvent(ctl.ev) = "order"

\* C14: when post_order_request fails or returns no fill, update_on_fill is
\* not called and no member changes; if the next iteration sees the same
\* tick and the same positions, it issues an order of the same units.
C14_UnfilledOrderIsRetried ==
    [][/\ ctl.pc = "post" /\ LastEvent(ctl'.ev) \in {"post failed", "no fill"}
          => /\ inv' = inv
             /\ "update_on_fill" \notin Events(ctl'.ev)
             /\ ctl'.pc = "top"
       /\ ctl.pc = "post?" /\ ctl.prev # NoPrev
             /\ ctl.tick = ctl.prev.tick /\ ctl.positions = ctl.prev.positions
          => /\ ctl'.pc = "post"
             /\ ctl'.order = ctl.prev.order]_vars

\* the order of an iteration that repeats the unfilled one before it
C14_Witness ==
    /\ ctl.pc = "post"
    /\ ctl.retry
    /\ ctl.iter >= 2
    /\ ctl.order # 0
    /\ ctl.staged # {}

\* C15, as claimed: when get_pricing, get_open_positions or
\* post_order_request fails in an iteration, the failure is logged, the
\* inventory is unchanged and the loop goes on to the next iteration.
C15_BrokerFailureNeverStops ==
    [][LastEvent(ctl'.ev) \in {"pricing failed", "positions failed", "post failed"}
            /\ ctl'.ev # ctl.ev
          => /\ inv' = inv
             /\ ctl'.log # ""
             /\ ctl'.pc = "top"]_vars

\* C16: update_on_fill is called at most once in an iteration, only after
\* the order posted in that iteration returned a fill, after the iteration's
\* tick fetch, positions fetch and next_exposure, and before the next tick
\* fetch.
C16_UpdateIsFillGated ==
    /\ Count(ctl.ev, "update_on_fill") <= 1
    /\ "update_on_fill" \in Events(ctl.ev)
       => /\ ctl.ev = <<"pricing", "positions", "next_exposure", "order",
                        "fill", "update_on_fill">>
          /\ ctl.pc = "top"
    /\ ctl.pc \in {"pricing", "positions"} => "update_on_fill" \notin Events(ctl.ev)

C16_Witness ==
    /\ LastEvent(ctl.ev) = "update_on_fill"
    /\ ctl.iter = 2

\* the members of an inventory that are active
Active(i) == {n \in Keys(i) : is_active(i.agents[n])}

RECURSIVE SumNext(_, _, _)
\* the sum over the members S of what next_exposure(tick) returns on each
SumNext(i, S, tick) ==
    IF S = {} THEN 0
    ELSE LET n == CHOOSE x \in S : TRUE
         IN  next_exposure(i.agents[n], tick).ret + SumNext(i, S \ {n}, tick)

\* C17: inventory next_exposure(tick) returns the sum of next_exposure(tick)
\* over the active members, stages tentatives on those members only, leaves
\* the inactive members untouched, and its result and the state of every
\* member are the same for every order of visit.
C17_NextExposureSumsActive ==
    [][invHist'.op = "next_exposure"
          => LET tick == invHist'.tick
             IN  /\ invHist'.ret = SumNext(inv, Active(inv), tick)
                 /\ \A n \in Active(inv) :
                        inv'.agents[n] = next_exposure(inv.agents[n], tick).agent
                 /\ \A n \in Keys(inv) \ Active(inv) :
                        inv'.agents[n] = inv.agents[n]
                 /\ \A order \in Orders(Keys(inv)) :
                        AgentInventory_next_exposure(inv, tick, order)
                            = [inv |-> inv', ret |-> invHist'.ret]]_vars

\* next_exposure on an inventory with an inactive member holding a staged
\* cell, the other member staging a trade
C17_Witness ==
    /\ invHist.op = "next_exposure"
    /\ invHist.idle # {}
    /\ invHist.idle # Keys(inv)
    /\ invHist.ret # 0
    /\ \E n \in invHist.idle :
           inv.agents[n].tentative_exposure # exposure(inv.agents[n])

\* C18: inventory deactivate() makes every member inactive; from then on
\* the inventory's exposure() is 0, next_exposure returns 0 for every tick,
\* next_exposure and update_on_fill change no member, and to_be_closed()
\* is false.
C18_DeactivatedInventoryIsInert ==
    [][/\ invHist'.op = "deactivate" => Active(inv') = {}
       /\ invHist.allOff
          => /\ Active(inv) = {}
             /\ \A order \in Orders(Keys(inv)) :
                    AgentInventory_exposure(inv, order) = 0
             /\ ~AgentInventory_to_be_closed(inv)
             /\ invHist'.op = "next_exposure"
                    => invHist'.ret = 0 /\ inv' = inv
             /\ invHist'.op = "update_on_fill" => inv' = inv]_vars

\* a fill broadcast to a deactivated inventory whose members hold a
\* position and a staged cell that differs from it
C18_Witness ==
    /\ invHist.allOff
    /\ invHist.op = "update_on_fill"
    /\ \E n \in Keys(inv) :
           inv.agents[n].tentative_exposure # exposure(inv.agents[n])

\* C19, as claimed: for any two distinct names name1, name2 of the
\* inventory and any outname, merge_from_inventory leaves outname mapped to
\* agent1.merge_flat(agent2), neither name1 nor name2 mapped to its original
\* agent, every other entry unchanged, and one key less when outname is not
\* a third key of the inventory.
C19_MergeReplacesTwoByOne ==
    [][LET name1 == invHist'.name1
           name2 == invHist'.name2
           outname == invHist'.outname
       IN  /\ invHist'.op = "merge_from_inventory"
           /\ name1 # name2
           /\ name1 \in Keys(inv) /\ name2 \in Keys(inv)
           => /\ outname \in Keys(inv')
              /\ inv'.agents[outname]
                     = MergedAgent(inv.agents[name1], inv.agents[name2])
              /\ \A n \in {name1, name2} \cap Keys(inv') :
                     inv'.agents[n] # inv.agents[n]
              /\ \A n \in Keys(inv) \ {name1, name2, outname} :
                     n \in Keys(inv') /\ inv'.agents[n] = inv.agents[n]
              /\ Keys(inv') \subseteq Keys(inv) \cup {outname}
              /\ outname \notin Keys(inv) \ {name1, name2}
                     => Cardinality(Keys(inv')) = Cardinality(Keys(inv)) - 1]_vars

\* C20: merging inventory B into A gives the union of the two key sets,
\* every key of B mapped to B's agent and every key of A alone to A's agent.
C20_MergeInventoriesOtherWins ==
    [][invHist'.op = "merge_inventories"
          => /\ Keys(inv') = Keys(inv) \cup Keys(inv2)
             /\ \A n \in Keys(inv2) : inv'.agents[n] = inv2.agents[n]
             /\ \A n \in Keys(inv) \ Keys(inv2) : inv'.agents[n] = inv.agents[n]
             /\ inv'.pl = inv.pl
             /\ inv2' = inv2]_vars

\* a merge with a colliding key, a key of A alone and a key of B alone
C20_Witness ==
    /\ invHist.op = "merge_inventories"
    /\ invHist.collide # {}
    /\ Keys(inv2) \ invHist.collide # {}
    /\ Keys(inv) \ Keys(inv2) # {}
    /\ \A n \in invHist.collide : inv.agents[n] = [id |-> <<2, n>>]

\* C23, as claimed: whenever next_exposure is called, the first tick of a
\* fresh agent included, the AgentPL handed to pl_at_price has a non-zero
\* exposure or a non-zero price_average.
C23_NoPLAtPriceOnFlat ==
    [][hist'.op = "next_exposure"
          => exposure(agent) # 0 \/ agent.agentPL.price_average # F(0)]_vars

\* C24: on a gear of positive, negative, symmetric or constant, g(x) is g_0
\* for x <= p_0, g_n for x >= p_n, and in between the value at x of the line
\* from (p_0, g_0) to (p_n, g_n); it lies between g_0 and g_n, in [-1, 1].
C24_GearEvaluation ==
    hist.op = "g" /\ agent.gear_f \in FourGears
        => LET gear == agent.gear_f
               x == hist.x
               y == hist.ret
           IN  /\ FLe(x, gear.p_0) => y = gear.g_0
               /\ FGe(x, gear.p_n) => y = gear.g_n
               /\ FGe(x, gear.p_0) /\ FLt(x, gear.p_n)
                      => y = FAdd(gear.g_0,
                                  FDiv(FMul(FSub(x, gear.p_0),
                                            FSub(gear.g_n, gear.g_0)),
                                       FSub(gear.p_n, gear.p_0)))
               /\ FLe(FMin(gear.g_0, gear.g_n), y)
               /\ FLe(y, FMax(gear.g_0, gear.g_n))
               /\ FLe(F(-1), y) /\ FLe(y, F(1))

\* the symmetric gear between 2 and 6 evaluated at 3, a quarter of the way
C24_Witness ==
    /\ hist.op = "g"
    /\ agent.gear_f = Gear_symmetric(F(2), F(6))
    /\ hist.x = F(3)
    /\ hist.ret = Q(1, 2)

\* C25: an agent as its constructor (or GAgent::build) leaves it is flat and
\* active, has no realized profit, stages exposure 0, and has both trip-wires
\* at its last trade price.
C25_FreshAgent ==
    hist.op # "next_exposure"
        => /\ exposure(agent) = 0
           /\ agent.active = TRUE
           /\ agent.agentPL.cum_profit = F(0)
           /\ agent.tentative_exposure = 0
           /\ agent.nextBuyPrice = agent.lastTradePrice
           /\ agent.nextSellPrice = agent.lastTradePrice

\* the agent built from the OHLC case, before any operation
C25_Witness ==
    /\ hist.op = "new"
    /\ agent = GAgent_build([kind |-> "OHLC", open |-> F(3), high |-> F(6),
                             low |-> F(2), close |-> F(4), scale |-> F(1),
                             exposure |-> F(3), target |-> <<>>])
    /\ agent.max_exposure = F(3)

\* C27, as claimed: the first next_exposure of a fresh agent, on any tick
\* with bid <= ask, meets bid >= next_sell_price or ask <= next_buy_price and
\* stages at the tick's bid or ask.
C27_FirstTickAlwaysStages ==
    [][hist'.op = "next_exposure"
          => LET tick == hist'.tick
             IN  /\ \/ FGe(tick.bid, agent.nextSellPrice)
                    \/ FLe(tick.ask, agent.nextBuyPrice)
                 /\ agent'.tentative_price \in {tick.bid, tick.ask}]_vars

\* C27, amended: both trip-wires of a fresh agent are at its anchor price, so
\* its first next_exposure stages at the bid when bid >= anchor, at the ask
\* when bid < anchor and ask <= anchor, and takes the no-trade branch exactly
\* when the tick straddles the anchor (bid < anchor < ask).
C27_FirstTickStagesUnlessStraddling ==
    [][hist'.op = "next_exposure"
          => LET tick == hist'.tick
                 anchor == agent.lastTradePrice
                 at == IF FGe(tick.bid, anchor) THEN tick.bid ELSE tick.ask
                 e == AsI64(FMul(Gear_g(agent.gear_f, at), agent.max_exposure))
             IN  IF FLt(tick.bid, anchor) /\ FGt(tick.ask, anchor)
                 THEN agent' = agent /\ hist'.ret = F(0)
                 ELSE /\ agent' = [agent EXCEPT !.tentative_price = at,
                                                !.tentative_exposure = e]
                      /\ hist'.ret = F(e)]_vars

\* a first tick that straddles the anchor: nothing is staged
C27_Witness ==
    /\ hist.op = "next_exposure"
    /\ FLt(hist.tick.bid, agent.lastTradePrice)
    /\ FGt(hist.tick.ask, agent.lastTradePrice)
    /\ agent.tentative_exposure = 0
    /\ agent.tentative_price = agent.lastTradePrice

\* C21: merge_flat replays both positions: the merged agent holds the sum of
\* the two exposures and is active, also when the replay realizes more than
\* the merged target; when the two exposures have the same sign its
\* price_average is the mean of the two average prices weighted by |units|,
\* nothing is realized, and its unrealized PL at that price is zero.
C21_MergeFlatReplaysPositions ==
    [][hist'.op = "merge_flat"
          => LET other == hist'.other
                 e1 == exposure(agent)
                 e2 == exposure(other)
                 a1 == agent.agentPL.price_average
                 a2 == other.agentPL.price_average
                 m == agent'.agentPL
             IN  /\ exposure(agent') = e1 + e2
                 /\ agent'.active = TRUE
                 /\ e1 * e2 > 0
                        => /\ m.price_average
                                  = FDiv(FAdd(FMul(a1, F(Abs(e1))),
                                              FMul(a2, F(Abs(e2)))),
                                         F(Abs(e1) + Abs(e2)))
                           /\ m.cum_profit = F(0)
                           /\ uPL(m, m.price_average) = F(0)]_vars

\* long 1 at 3 merged with long 2 at 5: long 3 at 13/3
C21_Witness ==
    /\ hist.op = "merge_flat"
    /\ exposure(hist.other) = 2
    /\ exposure(agent) = 3
    /\ agent.agentPL.price_average = Q(13, 3)
    /\ agent.active

\* C22, as claimed: the merged agent's scaleUp is the average of the inputs'
\* scaleUp and its scaleDown the average of the inputs' scaleDown.
C22_MergeFlatAveragesScales ==
    [][hist'.op = "merge_flat"
          => /\ agent'.scaleUp
                    = FDiv(FAdd(agent.scaleUp, hist'.other.scaleUp), F(2))
             /\ agent'.scaleDown
                    = FDiv(FAdd(agent.scaleDown, hist'.other.scaleDown), F(2))]_vars

\* the calls of increase_by and decrease_by made by the operation of a step
CallsOf(a, h) ==
    CASE h.op = "update_on_fill" -> update_on_fill_calls(a)
      [] h.op = "next_exposure_and_fill" -> next_exposure_and_fill_calls(a, h.fill)
      [] h.op = "merge_flat" -> merge_flat_calls(a, h.other)
      [] OTHER -> <<>>

\* C29: every call of increase_by and decrease_by made by an operation of
\* the agent, merge_flat included, has units # 0, and no increase_by leaves
\* exposure 0; the last call leaves the exposure the operation ends with.
C29_NoZeroUnitsInPL ==
    [][hist'.n = hist.n + 1
          => LET calls == CallsOf(agent, hist')
             IN  /\ \A k \in DOMAIN calls :
                        /\ calls[k].units # 0
                        /\ calls[k].fn = "increase_by" => calls[k].e # 0
                 /\ calls # <<>> => calls[Len(calls)].e = exposure(agent')
                 /\ calls = <<>> => exposure(agent') = exposure(agent)]_vars

\* a merge with a flat agent: only the position of the other one is replayed
C29_Witness ==
    /\ hist.op = "merge_flat"
    /\ exposure(hist.other) = 0
    /\ exposure(agent) # 0

\* the branch of next_exposure that a tick takes on an agent
SellBranch(a, tick) == ~TakeDue(a, tick) /\ BidDue(a, tick)
BuyBranch(a, tick) == ~TakeDue(a, tick) /\ ~BidDue(a, tick) /\ AskDue(a, tick)

\* C28, as claimed: with fills at arbitrary prices, the bid >= next_sell_price
\* branch never stages more than the current exposure and the
\* ask <= next_buy_price branch never stages less.
C28_SellUpBuyDown ==
    [][hist'.op = "next_exposure"
          => /\ SellBranch(agent, hist'.tick)
                    => agent'.tentative_exposure <= exposure(agent)
             /\ BuyBranch(agent, hist'.tick)
                    => agent'.tentative_exposure >= exposure(agent)]_vars

\* C28, amended: the same, as long as every fill came at the price that was
\* staged when it was applied (order_fill.price = tentative_price).
C28_SellUpBuyDownOnStagedPrice ==
    [][hist'.op = "next_exposure" /\ hist.faithful
          => /\ SellBranch(agent, hist'.tick)
                    => agent'.tentative_exposure <= exposure(agent)
             /\ BuyBranch(agent, hist'.tick)
                    => agent'.tentative_exposure >= exposure(agent)]_vars

\* after a trade filled at the staged price, a tick that reached the buy
\* trip-wire has staged a larger exposure
C28_Witness ==
    /\ hist.op = "next_exposure"
    /\ hist.faithful
    /\ nFills > 0
    /\ exposure(agent) # 0
    /\ agent.tentative_price = hist.tick.ask
    /\ FLe(hist.tick.ask, agent.nextBuyPrice)
    /\ agent.tentative_exposure > exposure(agent)

\* C26: the body of the loop runs at most MaxIter times and the loop then
\* ends; thread::sleep is skipped before the first iteration only, so it has
\* been called once per iteration begun but the first, also after a no-trade
\* `continue`.
C26_LoopTerminates ==
    /\ [](/\ ctl.iter <= MaxIter + 1
          /\ ctl.pc \in {"pricing", "positions", "post?", "post"}
                 => ctl.iter >= 1 /\ ctl.iter <= MaxIter
          /\ ctl.pc = "exited" => ctl.iter = MaxIter + 1
          /\ ctl.sleeps = IF ctl.iter = 0 THEN 0 ELSE ctl.iter - 1)
    /\ <>(ctl.pc \in {"exited", "panicked"})

\* the loop left through its break, the last iteration having ended in the
\* no-trade `continue`
C26_Witness ==
    /\ ctl.pc = "exited"
    /\ ctl.iter = MaxIter + 1
    /\ ctl.sleeps = MaxIter
    /\ ctl.afterSkip

RECURSIVE SumExposure(_, _)
\* the sum of exposure() over the members S
SumExposure(i, S) ==
    IF S = {} THEN 0
    ELSE LET n == CHOOSE x \in S : TRUE
         IN  exposure(i.agents[n]) + SumExposure(i, S \ {n})

\* C30: the broker filling every order completely, after an iteration that
\* applied a fill the exposures of the active members add up to the target
\* that inventory.next_exposure returned in that iteration, whatever the
\* earlier iterations did.
C30_FillReconciles ==
    (ctl.pc = "top" /\ LastEvent(ctl.ev) = "update_on_fill")
        => SumExposure(inv, Active(inv)) = ctl.target

\* C31: once a fill has been broadcast after a member was deactivated, in
\* the loop by the profit-take branch of next_exposure, that member holds
\* exposure 0: the closing fill has flattened it.
C31_ClosedMembersAreFlat ==
    (ctl.pc = "top" /\ LastEvent(ctl.ev) = "update_on_fill")
        => \A n \in Keys(inv) :
               ~is_active(inv.agents[n]) => exposure(inv.agents[n]) = 0

\* the staged and the held exposure of a are within max_exposure
WithinMax(a) ==
    /\ FLe(F(Abs(a.tentative_exposure)), a.max_exposure)
    /\ FLe(F(Abs(exposure(a))), a.max_exposure)

\* every value the gear takes lies in [-1, 1]
UnitGear(gear) ==
    /\ FLe(FAbs(gear.g_0), F(1))
    /\ FLe(FAbs(gear.g_n), F(1))
    /\ \A i \in DOMAIN gear.g_i :
           /\ FLe(FAbs(gear.g_i[i].g_start), F(1))
           /\ FLe(FAbs(gear.g_i[i].g_end), F(1))

=============================================================================
